---- MODULE Spec2Model ----
(***************************************************************************)
(* Model of the subtitle extraction service (src/app/service.py,           *)
(* src/app/utils.py): the video reference resolver, the two WebVTT         *)
(* parsers, the retry loop of SubtitleExtractor.extract_subtitles and the   *)
(* cached language listing (list_available_languages).                     *)
(*                                                                         *)
(* Python strings are modelled as sequences of one-character strings, so   *)
(* that splitting, stripping, regular-expression search, tag removal and   *)
(* substring classification are computed the way the code computes them.   *)
(***************************************************************************)
EXTENDS Naturals, Integers, Sequences, FiniteSets, TLC

VARIABLES
    vtt_content,     \* parser input: the caption text handed to the parser
    small_entries,   \* result of _parse_vtt_to_json (materialized path), or NotRun
    stream_entries,  \* result of _parse_vtt_streaming, or NotRun
    pc,              \* position of the extract_subtitles call
    video_url,       \* argument video_url of the running call
    lang,            \* argument lang
    output_format,   \* argument output_format
    video_id,        \* extract_video_id(video_url)
    attempt,         \* loop variable of "for attempt in range(MAX_RETRIES)"
    last_error,      \* local last_error
    invocations,     \* number of ydl.extract_info calls made by the running call
    sleeps,          \* sequence of the delays passed to time.sleep by the running call
    outcomes,        \* per attempt: what _extract_subtitles_once did (result or error)
    answers,         \* per attempt: what the capability answered to ydl.extract_info
    temp_dirs,       \* working areas: acquired so far and currently existing
    result,          \* value returned by extract_subtitles, or NoResult
    raised,          \* exception raised by extract_subtitles, or NoError
    language_cache,  \* self._language_cache: video id -> (languages, timestamp)
    now,             \* what time.time() returns
    lang_calls,      \* the listing and clearing calls made on the extractor, in order
    info,            \* _fetch_languages: the record ydl.extract_info returned
    languages,       \* _fetch_languages: the list returned, or NoResult
    argument,        \* the argument a function of the service is applied to
    returned,        \* what the function returned for it, or NotCalled
    rows,            \* the rows of table subtitle_cache
    utc,             \* models.utcnow(), in hours
    deleted_counts,  \* what the calls of cleanup_expired returned, in order
    subtitle_cache,  \* the SubtitleCache object: _cache (least recently used first), _hits, _misses
    monotonic,       \* time.monotonic(), the timer of _cache
    cache_history,   \* history of the SubtitleCache calls: their number, the last set of
                     \* each address, the keys evicted since, and the last get
    threads,         \* the threads that call one extractor at once: the statement each
                     \* is at, its locals and its outcome
    requests,        \* the requests to get_subtitles: the stage of each handler and the
                     \* locals of its extract_subtitles call in a worker thread
    areas,           \* the file system under ytdlp_temp_dir: directories and their files
    loop,            \* the request whose code occupies the event loop, or 0
    engine,          \* DatabaseEngine._engine: None, or the open engine
    tables,          \* the tables of SQLModel.metadata exist in the database file
    cleanup_task,    \* DatabaseLifecycle._cleanup_task
    shutdown_event,  \* DatabaseLifecycle._shutdown_event
    lifecycle,       \* how far startup() and shutdown() of the lifecycle manager have come
    table,           \* the subtitle_cache table as two concurrent writers see it: rows with their ids
    writers,         \* the two concurrent set_cached_subtitle calls: the statement each is at and its locals
    rate_limit_tracker, \* _rate_limit_tracker: the tracked IPs in insertion order, each with its timestamps
    rate_limit_lock, \* _rate_limit_lock: the caller that holds it, or 0
    callers,         \* the calls of _check_rate_limit under way: where each is, and its ip
    wall,            \* time.time(), in seconds
    verdicts,        \* what the calls of _check_rate_limit returned, in order: ip, time, allowed or not
    max_requests,    \* settings.rate_limit_per_minute, the limit every call is given
    settings,        \* the configuration: cache_ttl in seconds, and the format the requests of the run ask for
    memory,          \* the in-memory tier (app.cache.cache): the item of the key, or none
    persistent,      \* the persistent tier (table subtitle_cache): the row of the key, or none
    clock,           \* the time in seconds: utcnow() and time.monotonic() advance alike
    handlers,        \* the requests under way on the two endpoints: the statement each is at and its locals
    served           \* the requests that are over, in order: what each answered and did

vars == <<vtt_content, small_entries, stream_entries, pc, video_url, lang,
          output_format, video_id, attempt, last_error, invocations, sleeps,
          outcomes, answers, temp_dirs, result, raised, language_cache, now,
          lang_calls, info, languages, argument, returned,
          rows, utc, deleted_counts, subtitle_cache, monotonic, cache_history,
          threads, requests, areas, loop,
          engine, tables, cleanup_task, shutdown_event, lifecycle,
          table, writers,
          rate_limit_tracker, rate_limit_lock, callers, wall, verdicts, max_requests,
          settings, memory, persistent, clock, handlers, served>>

parse_vars == <<vtt_content, small_entries, stream_entries>>

extract_vars == <<pc, video_url, lang, output_format, video_id, attempt, last_error,
                  invocations, sleeps, outcomes, answers, temp_dirs, result, raised>>

cache_vars == <<language_cache, now, lang_calls>>

fetch_vars == <<info, languages>>

fun_vars == <<argument, returned>>

db_vars == <<rows, utc, deleted_counts>>

store_vars == <<subtitle_cache, monotonic, cache_history>>

race_vars == <<threads>>

call_vars == <<requests, areas, loop>>

life_vars == <<engine, tables, cleanup_task, shutdown_event, lifecycle>>

upsert_vars == <<table, writers>>

limit_vars == <<rate_limit_tracker, rate_limit_lock, callers, wall, verdicts, max_requests>>

api_vars == <<settings, memory, persistent, clock, handlers, served>>

\* Python's None where a string is expected: no string of characters equals it.
None == <<"None">>

\* No value of output_format.
NoFormat == "None"

\* No exception: the value of last_error and of raised while there is none.
NoError == [type |-> "None", msg |-> <<>>, at |-> 0]

\* No value returned (yet).
NoResult == <<>>

\* A parser that has not been called, and one that has returned `entries`.
NotRun == [done |-> FALSE, entries |-> <<>>]

Returned(entries) == [done |-> TRUE, entries |-> entries]

-----------------------------------------------------------------------------
(* Characters and elementary string operations                             *)

Digits == {"0","1","2","3","4","5","6","7","8","9"}

LowerLetters == {"a","b","c","d","e","f","g","h","i","j","k","l","m",
                 "n","o","p","q","r","s","t","u","v","w","x","y","z"}

UpperLetters == {"A","B","C","D","E","F","G","H","I","J","K","L","M",
                 "N","O","P","Q","R","S","T","U","V","W","X","Y","Z"}

\* Characters str.strip() removes and \s matches (the ASCII ones).
Whitespace == {" ", "\t", "\n", "\r", "\f"}

\* Line boundaries of str.splitlines() (the ASCII ones that are also whitespace).
LineBreaks == {"\n", "\r", "\f"}

IsDigit(c) == c \in Digits

IsSpace(c) == c \in Whitespace

SetMin(S) == CHOOSE m \in S : \A k \in S : m <= k

SetMax(S) == CHOOSE m \in S : \A k \in S : m >= k

\* s[i], or "" past either end of s.
At(s, i) == IF i >= 1 /\ i <= Len(s) THEN s[i] ELSE ""

\* s[i:] of Python, with i the 1-based first index kept.
From(s, i) == IF i > Len(s) THEN <<>> ELSE SubSeq(s, i, Len(s))

\* s.startswith(p) at offset i.
HasAt(s, i, p) == i >= 1 /\ i + Len(p) - 1 <= Len(s) /\ SubSeq(s, i, i + Len(p) - 1) = p

StartsWith(s, p) == HasAt(s, 1, p)

\* "p in s" of Python.
Contains(s, p) == \E i \in 1..(Len(s) + 1) : HasAt(s, i, p)

\* str.strip()
Strip(s) ==
    LET keep == {i \in 1..Len(s) : ~IsSpace(s[i])}
    IN  IF keep = {} THEN <<>> ELSE SubSeq(s, SetMin(keep), SetMax(keep))

\* str.split(sep) for a one-character separator.
RECURSIVE Split(_, _)
Split(s, sep) ==
    LET at == {i \in 1..Len(s) : s[i] = sep}
    IN  IF at = {} THEN <<s>>
        ELSE <<SubSeq(s, 1, SetMin(at) - 1)>> \o Split(From(s, SetMin(at) + 1), sep)

\* str.splitlines(): no final empty line, "\r\n" is one boundary.
RECURSIVE SplitLines(_)
SplitLines(s) ==
    LET at == {i \in 1..Len(s) : s[i] \in LineBreaks}
    IN  IF s = <<>> THEN <<>>
        ELSE IF at = {} THEN <<s>>
        ELSE LET k == SetMin(at)
                 n == IF s[k] = "\r" /\ At(s, k + 1) = "\n" THEN k + 2 ELSE k + 1
             IN  <<SubSeq(s, 1, k - 1)>> \o SplitLines(From(s, n))

\* sep.join(parts)
RECURSIVE Join(_, _)
Join(parts, sep) ==
    IF parts = <<>> THEN <<>>
    ELSE IF Len(parts) = 1 THEN parts[1]
    ELSE parts[1] \o sep \o Join(Tail(parts), sep)

\* Index of the last character of the longest run of characters of S that
\* starts at i (i - 1 when s[i] is not in S): a greedy \d+ or \s*.
RunEnd(s, i, S) ==
    LET stop == {k \in i..(Len(s) + 1) : At(s, k) \notin S}
    IN  SetMin(stop) - 1

-----------------------------------------------------------------------------
(* Timestamp patterns (class attributes of SubtitleExtractor)              *)

\* A search that found nothing (re.search returning None).
NoMatch == <<>>

\* \d+:\d{2}:\d{2}\.\d+ matched at index i: index of its last character, 0 if none.
MatchTimeLong(s, i) ==
    LET h == RunEnd(s, i, Digits)
    IN  IF /\ h >= i
           /\ At(s, h + 1) = ":"
           /\ IsDigit(At(s, h + 2)) /\ IsDigit(At(s, h + 3))
           /\ At(s, h + 4) = ":"
           /\ IsDigit(At(s, h + 5)) /\ IsDigit(At(s, h + 6))
           /\ At(s, h + 7) = "."
           /\ IsDigit(At(s, h + 8))
        THEN RunEnd(s, h + 8, Digits)
        ELSE 0

\* \d{2}:\d{2}\.\d+ matched at index i: index of its last character, 0 if none.
MatchTimeShort(s, i) ==
    IF /\ IsDigit(At(s, i)) /\ IsDigit(At(s, i + 1))
       /\ At(s, i + 2) = ":"
       /\ IsDigit(At(s, i + 3)) /\ IsDigit(At(s, i + 4))
       /\ At(s, i + 5) = "."
       /\ IsDigit(At(s, i + 6))
    THEN RunEnd(s, i + 6, Digits)
    ELSE 0

\* The time of a pattern matched at index i; form is "long" for
\* TIMESTAMP_PATTERN and "short" for TIMESTAMP_PATTERN_SHORT.
MatchTime(form, s, i) ==
    IF form = "long" THEN MatchTimeLong(s, i) ELSE MatchTimeShort(s, i)

\* The rest of (time)\s*-->\s*(time) once the first time has matched from i to
\* a, the whitespace after it ends at j and the whitespace after "-->" at k.
MatchArrowAt(s, i, a, j, k, form) ==
    IF HasAt(s, j + 1, <<"-","-",">">>) /\ MatchTime(form, s, k + 1) > 0
    THEN <<SubSeq(s, i, a), SubSeq(s, k + 1, MatchTime(form, s, k + 1))>>
    ELSE NoMatch

MatchAfterTime(s, i, a, j, form) ==
    IF a > 0 THEN MatchArrowAt(s, i, a, j, RunEnd(s, j + 4, Whitespace), form) ELSE NoMatch

\* (time)\s*-->\s*(time) matched at index i: the two groups, or NoMatch.
MatchPairAt(s, i, form) ==
    MatchAfterTime(s, i, MatchTime(form, s, i),
                   RunEnd(s, MatchTime(form, s, i) + 1, Whitespace), form)

FirstHit(s, hits, form) ==
    IF hits = {} THEN NoMatch ELSE MatchPairAt(s, SetMin(hits), form)

\* pattern.search(line): the leftmost match.
SearchPair(s, form) ==
    FirstHit(s, {i \in 1..Len(s) : MatchPairAt(s, i, form) # NoMatch}, form)

TIMESTAMP_PATTERN(line) == SearchPair(line, "long")

TIMESTAMP_PATTERN_SHORT(line) == SearchPair(line, "short")

\* TAG_REMOVAL_PATTERN.sub("", s): every "<" that has a later ">" is removed
\* together with everything up to the first such ">".
RECURSIVE TAG_REMOVAL_PATTERN(_)
TAG_REMOVAL_PATTERN(s) ==
    LET open == {i \in 1..Len(s) : s[i] = "<" /\ \E j \in (i + 1)..Len(s) : s[j] = ">"}
    IN  IF open = {} THEN s
        ELSE LET i == SetMin(open)
                 j == SetMin({k \in (i + 1)..Len(s) : s[k] = ">"})
             IN  SubSeq(s, 1, i - 1) \o TAG_REMOVAL_PATTERN(From(s, j + 1))

\* The concatenation of pieces[lo], ..., pieces[hi].
RECURSIVE Flatten(_, _, _)
Flatten(pieces, lo, hi) ==
    IF lo > hi THEN <<>>
    ELSE IF lo = hi THEN pieces[lo]
    ELSE Flatten(pieces, lo, (lo + hi) \div 2) \o Flatten(pieces, (lo + hi) \div 2 + 1, hi)

\* How nh3.clean writes one character of text.
EscapeChar(c) ==
    IF c = ">" THEN <<"&","g","t",";">> ELSE IF c = "<" THEN <<"&","l","t",";">> ELSE <<c>>

\* nh3.clean(s) on text the tag removal has left: no "<" is followed by a ">".
\* The HTML tokenizer drops an unterminated tag ("<" then a letter, up to the
\* end of the input); any other "<" and every ">" is text and is escaped.
nh3_clean(s) ==
    LET tags == {i \in 1..Len(s) : s[i] = "<" /\ At(s, i + 1) \in LowerLetters \cup UpperLetters}
    IN  Flatten([i \in 1..Len(s) |-> EscapeChar(s[i])], 1,
                IF tags = {} THEN Len(s) ELSE SetMin(tags) - 1)

\* re.sub(r"\s+", " ", s): the first character of every run of whitespace
\* becomes one space, the rest of the run goes.
CollapseWhitespace(s) ==
    Flatten([i \in 1..Len(s) |-> IF ~IsSpace(s[i]) THEN <<s[i]>>
                                  ELSE IF IsSpace(At(s, i - 1)) THEN <<>> ELSE <<" ">>],
            1, Len(s))

WEBVTT == <<"W","E","B","V","T","T">>

NOTE == <<"N","O","T","E">>

STYLE == <<"S","T","Y","L","E">>

SubtitleEntry(start, end, text) == [start |-> start, end |-> end, text |-> text]

\* text = " ".join(text_lines); text = re.sub(r"\s+", " ", text).strip()
EntryText(text_lines) == Strip(CollapseWhitespace(Join(text_lines, <<" ">>)))

\* One line of cue text as both parsers clean it: tag removal, then nh3.clean.
CleanTextLine(line) == nh3_clean(TAG_REMOVAL_PATTERN(line))

\* "if text_line and text_line not in ("NOTE", "STYLE")"
KeepTextLine(text_line) == text_line # <<>> /\ text_line \notin {NOTE, STYLE}

\* "if ...: text_lines.append(text_line)"
AddTextLine(text_lines, text_line) ==
    IF KeepTextLine(text_line) THEN Append(text_lines, text_line) ELSE text_lines

\* The short form converted: start = f"00:{start}", end = f"00:{end}".
ShortAsLong(short) ==
    IF short # NoMatch THEN <<<<"0","0",":">> \o short[1], <<"0","0",":">> \o short[2]>> ELSE NoMatch

\* The long pattern's match if it has one, else the short pattern's, converted.
LongOrShort(long, line) ==
    IF long # NoMatch THEN long ELSE ShortAsLong(TIMESTAMP_PATTERN_SHORT(line))

\* start, end = timestamp_match.groups() as both parsers obtain them from a
\* line: <<start, end>>, or NoMatch when neither pattern is found in the line.
MatchTimestampLine(line) == LongOrShort(TIMESTAMP_PATTERN(line), line)

-----------------------------------------------------------------------------
(* _parse_vtt_to_json, small-input path: the materialized line array       *)

\* The inner "while i < len(lines) and lines[i].strip()" loop: collects the
\* cleaned text lines from index i on, up to the first blank line.
\* Result: <<text_lines, i after the loop>>.
RECURSIVE CollectText(_, _, _)
CollectText(lines, i, text_lines) ==
    IF i <= Len(lines) /\ Strip(lines[i]) # <<>>
    THEN CollectText(lines, i + 1, AddTextLine(text_lines, CleanTextLine(Strip(lines[i]))))
    ELSE <<text_lines, i>>

\* "if text_lines: ... entries.append(SubtitleEntry(start, end, text))"
AppendCue(entries, ts, text_lines) ==
    IF text_lines # <<>>
    THEN Append(entries, SubtitleEntry(ts[1], ts[2], EntryText(text_lines)))
    ELSE entries

RECURSIVE ParseLines(_, _, _)

\* After the inner loop has returned got = <<text_lines, i>> for the cue ts.
ParseAfterCue(lines, entries, ts, got) ==
    ParseLines(lines, got[2], AppendCue(entries, ts, got[1]))

\* A line that is not skipped: a cue if a pattern matches (ts), else skipped.
ParseTimestamp(lines, i, entries, ts) ==
    IF ts = NoMatch
    THEN ParseLines(lines, i + 1, entries)
    ELSE ParseAfterCue(lines, entries, ts, CollectText(lines, i + 1, <<>>))

\* One round of the outer loop on line = lines[i].strip().
ParseLine(lines, i, entries, line) ==
    IF line = <<>> \/ StartsWith(line, WEBVTT) \/ line \in {NOTE, STYLE}
    THEN ParseLines(lines, i + 1, entries)
    ELSE ParseTimestamp(lines, i, entries, MatchTimestampLine(line))

\* The outer "while i < len(lines)" loop, from index i with the entries so far.
ParseLines(lines, i, entries) ==
    IF i > Len(lines) THEN entries ELSE ParseLine(lines, i, entries, Strip(lines[i]))

ParseVttMaterialized(content) == ParseLines(Split(content, "\n"), 1, <<>>)

-----------------------------------------------------------------------------
(* _parse_vtt_streaming: one pass over vtt_content.splitlines()            *)

\* "Save previous entry if exists": entries after the append, if any.
SaveEntry(st) ==
    IF st.current_entry # NoMatch /\ st.text_lines # <<>>
    THEN Append(st.entries,
                SubtitleEntry(st.current_entry[1], st.current_entry[2],
                              EntryText(st.text_lines)))
    ELSE st.entries

\* A line past the header that is neither blank nor a block marker: it starts
\* an entry if a pattern matches (ts), else it is text of the current entry.
StreamContent(st, line, ts) ==
    IF ts # NoMatch
    THEN [entries |-> SaveEntry(st), current_entry |-> ts,
          text_lines |-> IF st.current_entry # NoMatch /\ st.text_lines # <<>>
                         THEN <<>> ELSE st.text_lines,
          in_header |-> FALSE]
    ELSE IF st.current_entry # NoMatch
    THEN [st EXCEPT !.in_header = FALSE,
                    !.text_lines = AddTextLine(st.text_lines, CleanTextLine(line))]
    ELSE [st EXCEPT !.in_header = FALSE]

\* The body of the loop on line = line.strip(), from the loop state
\* st = [entries, current_entry, text_lines, in_header].
StreamStripped(st, line) ==
    IF /\ st.in_header
       /\ \/ StartsWith(line, WEBVTT)
          \/ line = <<>>
          \/ StartsWith(line, NOTE)
          \/ StartsWith(line, STYLE)
    THEN st
    ELSE IF line = <<>> \/ line \in {NOTE, STYLE}
    THEN [entries |-> SaveEntry(st), current_entry |-> NoMatch,
          text_lines |-> <<>>, in_header |-> FALSE]
    ELSE StreamContent(st, line, MatchTimestampLine(line))

\* The body of "for line in vtt_content.splitlines()" on one line.
StreamLine(st, raw) == StreamStripped(st, Strip(raw))

RECURSIVE StreamLines(_, _, _)
StreamLines(lines, i, st) ==
    IF i > Len(lines) THEN st ELSE StreamLines(lines, i + 1, StreamLine(st, lines[i]))

\* "Don't forget the last entry": the final save after the loop.
ParseVttStreaming(content) ==
    SaveEntry(StreamLines(SplitLines(content), 1,
                          [entries |-> <<>>, current_entry |-> NoMatch,
                           text_lines |-> <<>>, in_header |-> TRUE]))

\* Size above which _parse_vtt_to_json hands the text to the streaming parser.
STREAMING_THRESHOLD == 1000000

\* _parse_vtt_to_json(vtt_content)
ParseVttToJson(content) ==
    IF Len(content) > STREAMING_THRESHOLD
    THEN ParseVttStreaming(content)
    ELSE ParseVttMaterialized(content)

-----------------------------------------------------------------------------
(* Video reference resolver (src/app/utils.py)                             *)

\* Length of a video id: the {11} of both patterns.
VIDEO_ID_LENGTH == 11

\* [a-zA-Z0-9_-]
IsIdChar(c) == c \in LowerLetters \cup UpperLetters \cup Digits \cup {"_", "-"}

\* The alternatives of the non-capturing group of YOUTUBE_PATTERN_COMPILED.
YOUTUBE_PATTERN_PREFIXES ==
    { <<"y","o","u","t","u","b","e",".","c","o","m","/","w","a","t","c","h","?","v","=">>, <<"y","o","u","t","u",".","b","e","/">>, <<"y","o","u","t","u","b","e",".","c","o","m","/","e","m","b","e","d","/">>, <<"y","o","u","t","u","b","e",".","c","o","m","/","s","h","o","r","t","s","/">> }

\* ([a-zA-Z0-9_-]{11}) matched at index i.
IsIdAt(s, i) ==
    /\ i + VIDEO_ID_LENGTH - 1 <= Len(s)
    /\ \A k \in i..(i + VIDEO_ID_LENGTH - 1) : IsIdChar(s[k])

\* YOUTUBE_ID_PATTERN_COMPILED.match(url): the whole input is one id; the "$"
\* of the pattern also matches before a line feed that ends the input.
IsRawVideoId(url) ==
    /\ IsIdAt(url, 1)
    /\ \/ Len(url) = VIDEO_ID_LENGTH
       \/ Len(url) = VIDEO_ID_LENGTH + 1 /\ url[Len(url)] = "\n"

\* Where YOUTUBE_PATTERN_COMPILED matches in url: <<index, prefix>> pairs.
UrlPatternHits(url) ==
    { h \in (1..Len(url)) \X YOUTUBE_PATTERN_PREFIXES :
        HasAt(url, h[1], h[2]) /\ IsIdAt(url, h[1] + Len(h[2])) }

\* extract_video_id(url): a search over the whole string, then the raw-id
\* pattern, else None.
extract_video_id(url) ==
    LET hits == UrlPatternHits(url)
    IN  IF hits # {}
        THEN LET h == CHOOSE x \in hits : \A y \in hits : x[1] <= y[1]
             IN  SubSeq(url, h[1] + Len(h[2]), h[1] + Len(h[2]) + VIDEO_ID_LENGTH - 1)
        ELSE IF IsRawVideoId(url) THEN SubSeq(url, 1, VIDEO_ID_LENGTH)
        ELSE None

\* urlparse(url).netloc for a url that starts with a scheme and "//": the text
\* after "//" up to the first "/", "?" or "#".
Netloc(url) ==
    LET rest == From(url, SetMin({i \in 1..Len(url) : HasAt(url, i, <<"/","/">>)}) + 2)
        stop == {i \in 1..Len(rest) : rest[i] \in {"/", "?", "#"}}
    IN  IF stop = {} THEN rest ELSE SubSeq(rest, 1, SetMin(stop) - 1)

\* valid_hosts of is_valid_youtube_url.
VALID_HOSTS == { <<"y","o","u","t","u","b","e",".","c","o","m">>, <<"w","w","w",".","y","o","u","t","u","b","e",".","c","o","m">>, <<"y","o","u","t","u",".","b","e">>, <<"m",".","y","o","u","t","u","b","e",".","c","o","m">> }

\* url.startswith(("http://", "https://"))
HasHttpScheme(url) == StartsWith(url, <<"h","t","t","p",":","/","/">>) \/ StartsWith(url, <<"h","t","t","p","s",":","/","/">>)

\* is_valid_youtube_url(url)
is_valid_youtube_url(url) ==
    \/ IsRawVideoId(url)
    \/ /\ HasHttpScheme(url)
       /\ Netloc(url) \in VALID_HOSTS
       /\ extract_video_id(url) # None

-----------------------------------------------------------------------------
(* Failure classification and backoff (SubtitleExtractor)                  *)

MAX_RETRIES == 3

RETRY_BACKOFF_BASE == 1

RETRY_BACKOFF_MAX == 4

\* RETRY_JITTER (0.5 s), in milliseconds.
RETRY_JITTER_MS == 500

UPPERCASE == <<"A","B","C","D","E","F","G","H","I","J","K","L","M","N","O","P","Q","R","S","T","U","V","W","X","Y","Z">>

LOWERCASE == <<"a","b","c","d","e","f","g","h","i","j","k","l","m","n","o","p","q","r","s","t","u","v","w","x","y","z">>

\* str.lower() on one character.
LowerChar(c) ==
    IF c \in UpperLetters
    THEN LOWERCASE[CHOOSE k \in 1..Len(UPPERCASE) : UPPERCASE[k] = c]
    ELSE c

\* str.lower()
Lower(s) == SubSeq([i \in 1..Len(s) |-> LowerChar(s[i])], 1, Len(s))

transient_status_codes == { <<"4","2","9">>, <<"5","0","3">>, <<"5","0","2">>, <<"5","0","4">> }

transient_patterns ==
    { <<"t","o","o"," ","m","a","n","y"," ","r","e","q","u","e","s","t","s">>, <<"r","a","t","e"," ","l","i","m","i","t">>, <<"t","i","m","e","o","u","t">>, <<"c","o","n","n","e","c","t","i","o","n"," ","r","e","f","u","s","e","d">>,
      <<"c","o","n","n","e","c","t","i","o","n"," ","r","e","s","e","t">>, <<"c","o","n","n","e","c","t","i","o","n"," ","e","r","r","o","r">>, <<"n","e","t","w","o","r","k"," ","e","r","r","o","r">>, <<"t","e","m","p","o","r","a","r","y">>,
      <<"s","e","r","v","i","c","e"," ","u","n","a","v","a","i","l","a","b","l","e">>, <<"b","a","d"," ","g","a","t","e","w","a","y">>, <<"g","a","t","e","w","a","y"," ","t","i","m","e","o","u","t">> }

\* The two any(... in error_message ...) tests of _is_transient_error.
HasTransientText(error_message) ==
    \/ \E code \in transient_status_codes : Contains(error_message, code)
    \/ \E pattern \in transient_patterns : Contains(error_message, pattern)

\* Variant of is_transient_error: the text is compared as it is written.
ClassifyCaseSensitive(error) == HasTransientText(error.msg)

\* _is_transient_error(error): substring tests on str(error).lower().
is_transient_error(error) == HasTransientText(Lower(error.msg))

Pow2(n) == IF n = 0 THEN 1 ELSE IF n = 1 THEN 2 ELSE IF n = 2 THEN 4 ELSE 8

\* Variant of calculate_retry_delay: the delay does not grow with the attempt.
ConstantDelay(a, jitter) == RETRY_BACKOFF_BASE * 1000 + jitter

\* _calculate_retry_delay(attempt), in milliseconds, for one draw of the jitter.
calculate_retry_delay(a, jitter) ==
    LET exp        == RETRY_BACKOFF_BASE * Pow2(a)
        base_delay == IF exp < RETRY_BACKOFF_MAX THEN exp ELSE RETRY_BACKOFF_MAX
    IN  base_delay * 1000 + jitter

\* Draws of random.uniform(0, RETRY_JITTER): both ends and the middle.
Jitters == {0, RETRY_JITTER_MS \div 2, RETRY_JITTER_MS}

-----------------------------------------------------------------------------
(* _extract_subtitles_once                                                 *)

\* The asset the capability leaves in the working area: no *.vtt file at all.
NoFile == <<"NoFile">>

Error(type, msg) == [type |-> type, msg |-> msg]

NoSubtitlesMessage(vid, l) ==
    <<"N","o"," ","s","u","b","t","i","t","l","e","s"," ","f","o","u","n","d"," ","f","o","r"," ","v","i","d","e","o"," ">> \o vid \o <<" ","i","n"," ","l","a","n","g","u","a","g","e"," ","'">> \o l
    \o <<"'","."," ","T","h","e"," ","v","i","d","e","o"," ","m","a","y"," ","n","o","t"," ","h","a","v","e"," ","s","u","b","t","i","t","l","e","s"," ","i","n"," ","t","h","i","s"," ","l","a","n","g","u","a","g","e",".">>

\* vtt_file.name: the capability names the asset <id>.<lang>.vtt
EmptyFileMessage(vid, l) ==
    <<"S","u","b","t","i","t","l","e"," ","f","i","l","e"," ","i","s"," ","e","m","p","t","y",":"," ">> \o vid \o <<".">> \o l \o <<".","v","t","t">>

MalformedMessage ==
    <<"F","a","i","l","e","d"," ","t","o"," ","p","a","r","s","e"," ","s","u","b","t","i","t","l","e","s"," ","f","r","o","m"," ","V","T","T"," ","f","i","l","e","."," ","T","h","e"," ","f","i","l","e"," ","m","a","y"," ","b","e"," ","m","a","l","f","o","r","m","e","d"," ","o","r"," ","u","s","e"," ","a","n"," ","u","n","s","u","p","p","o","r","t","e","d"," ","f","o","r","m","a","t",".">>

\* What info.get raises when extract_info returned None (ignoreerrors is set).
NoneInfoMessage == <<"'","N","o","n","e","T","y","p","e","'"," ","o","b","j","e","c","t"," ","h","a","s"," ","n","o"," ","a","t","t","r","i","b","u","t","e"," ","'","g","e","t","'">>

InvalidUrlMessage(url) == <<"C","o","u","l","d"," ","n","o","t"," ","e","x","t","r","a","c","t"," ","v","i","d","e","o"," ","I","D"," ","f","r","o","m"," ","U","R","L",":"," ">> \o url

\* VideoMetadata.from_info(info), reduced to the identifier.
VideoMetadata(vid) == [video_id |-> vid]

\* A value of Python type str and one of type list (of SubtitleEntry): the
\* two types of subtitles_data.
Str(s) == [type |-> "str", value |-> s]

List(entries) == [type |-> "list", value |-> entries]

\* The return value of a successful attempt.
Success(vid, payload) == [ok |-> TRUE, value |-> <<vid, payload, VideoMetadata(vid)>>]

\* An attempt that raised.
Failure(type, msg) == [ok |-> FALSE, error |-> Error(type, msg)]

\* Variant of JsonResult: zero entries are reported as "no subtitles found".
JsonResultAsNotFound(vid, entries) ==
    IF entries = <<>>
    THEN Failure("ValueError", NoSubtitlesMessage(vid, <<"e","n">>))
    ELSE Success(vid, List(entries))

\* "entries = self._parse_vtt_to_json(vtt_content); if not entries: raise ..."
JsonResult(vid, entries) ==
    IF entries = <<>>
    THEN Failure("ValueError", MalformedMessage)
    ELSE Success(vid, List(entries))

\* Variant of extract_subtitles_once: the text is parsed before it is tested
\* for being empty.
ParseBeforeEmptyCheck(vid, l, fmt, out) ==
    IF out.kind = "raises" THEN Failure("DownloadError", out.msg)
    ELSE IF out.kind = "returns_none" THEN Failure("AttributeError", NoneInfoMessage)
    ELSE IF out.asset = NoFile THEN Failure("ValueError", NoSubtitlesMessage(vid, l))
    ELSE IF fmt = "vtt" THEN Success(vid, Str(nh3_clean(TAG_REMOVAL_PATTERN(out.asset))))
    ELSE IF ParseVttToJson(out.asset) = <<>> THEN Failure("ValueError", MalformedMessage)
    ELSE IF Strip(out.asset) = <<>> THEN Failure("ValueError", EmptyFileMessage(vid, l))
    ELSE Success(vid, List(ParseVttToJson(out.asset)))

\* Variant of extract_subtitles_once: the VTT text is returned as downloaded.
UnsanitizedVtt(vid, l, fmt, out) ==
    IF out.kind = "raises" THEN Failure("DownloadError", out.msg)
    ELSE IF out.kind = "returns_none" THEN Failure("AttributeError", NoneInfoMessage)
    ELSE IF out.asset = NoFile THEN Failure("ValueError", NoSubtitlesMessage(vid, l))
    ELSE IF Strip(out.asset) = <<>> THEN Failure("ValueError", EmptyFileMessage(vid, l))
    ELSE IF fmt = "vtt" THEN Success(vid, Str(out.asset))
    ELSE JsonResult(vid, ParseVttToJson(out.asset))

\* Variant of extract_subtitles_once: without a caption file the identifier and
\* the metadata are returned with an empty payload.
ReturnsWithoutAsset(vid, l, fmt, out) ==
    IF out.kind = "raises" THEN Failure("DownloadError", out.msg)
    ELSE IF out.kind = "returns_none" THEN Failure("AttributeError", NoneInfoMessage)
    ELSE IF out.asset = NoFile THEN Success(vid, Str(<<>>))
    ELSE IF Strip(out.asset) = <<>> THEN Failure("ValueError", EmptyFileMessage(vid, l))
    ELSE IF fmt = "vtt" THEN Success(vid, Str(nh3_clean(TAG_REMOVAL_PATTERN(out.asset))))
    ELSE JsonResult(vid, ParseVttToJson(out.asset))

\* One call's work after the capability has answered with `out`:
\*   [kind |-> "raises", msg |-> m]         extract_info raised DownloadError(m)
\*   [kind |-> "returns_none"]              extract_info returned None
\*   [kind |-> "returns_info", asset |-> a] it returned a record; a is NoFile or
\*                                          the text of the *.vtt file it wrote
\* Result: [ok |-> TRUE, value |-> <<video_id, payload, metadata>>]
\*      or [ok |-> FALSE, error |-> Error(type, msg)].
extract_subtitles_once(vid, l, fmt, out) ==
    IF out.kind = "raises" THEN Failure("DownloadError", out.msg)
    ELSE IF out.kind = "returns_none" THEN Failure("AttributeError", NoneInfoMessage)
    ELSE IF out.asset = NoFile THEN Failure("ValueError", NoSubtitlesMessage(vid, l))
    ELSE IF Strip(out.asset) = <<>> THEN Failure("ValueError", EmptyFileMessage(vid, l))
    ELSE IF fmt = "vtt" THEN Success(vid, Str(nh3_clean(TAG_REMOVAL_PATTERN(out.asset))))
    ELSE JsonResult(vid, ParseVttToJson(out.asset))

-----------------------------------------------------------------------------
(* get_subtitles (src/app/main.py): what the endpoint makes of the result  *)

\* "except ValueError as e: raise HTTPException(status_code=404, detail=str(e))"
HTTPException(e) == [status_code |-> 404, detail |-> e.msg]

\* The text of the entries, in order.
EntryTexts(entries) == [k \in 1..Len(entries) |-> entries[k].text]

\* combined_text of the text format: " ".join(entry.text ...), whitespace
\* collapsed and stripped.
combined_text(entries) == Strip(CollapseWhitespace(Join(EntryTexts(entries), <<" ">>)))

-----------------------------------------------------------------------------
(* Inputs                                                                  *)

\* Number of lines of the caption texts handed to the parsers.
MaxLines == 4

TS_LONG == <<"0","0",":","0","0",":","0","1",".","0","0","0"," ","-","-",">"," ","0","0",":","0","0",":","0","4",".","0","0","0">>

TS_SHORT == <<"0","0",":","0","5",".","0","0","0"," ","-","-",">"," ","0","0",":","0","8",".","0","0","0">>

TEXT_PLAIN == <<"H","e","l","l","o">>

TEXT_TAGGED == <<"<","0","0",":","0","0",":","0","2",".","5","0","0",">","S","e","c","o","n","d"," ","<","0","0",":","0","0",":","0","3",".","0","0","0",">","s","u","b","t","i","t","l","e">>

TEXT_BLANK_TAGGED == <<"<","c",">"," ","<","/","c",">">>

TEXT_ONLY_TAGS == <<"<","c",">","<","/","c",">">>

\* A cue whose lines end in a bare carriage return.
CUE_CR == <<"0","0",":","0","0",":","0","1",".","0","0","0"," ","-","-",">"," ","0","0",":","0","0",":","0","4",".","0","0","0","\r","H","e","l","l","o">>

TimestampLines == {TS_LONG, TS_SHORT}

\* The lines caption texts are built from.
CaptionLines ==
    {WEBVTT, <<>>, TS_LONG, TS_SHORT, TEXT_PLAIN, TEXT_TAGGED, TEXT_BLANK_TAGGED,
     TEXT_ONLY_TAGS, CUE_CR}

LineSeqs == UNION {[1..n -> CaptionLines] : n \in 0..MaxLines}

\* The caption texts: up to MaxLines lines joined by "\n".
CaptionTexts == {Join(ls, <<"\n">>) : ls \in LineSeqs}

VideoUrls ==
    { <<"h","t","t","p","s",":","/","/","y","o","u","t","u",".","b","e","/","d","Q","w","4","w","9","W","g","X","c","Q">>,
      <<"h","t","t","p","s",":","/","/","w","w","w",".","y","o","u","t","u","b","e",".","c","o","m","/","w","a","t","c","h","?","v","=","d","Q","w","4","w","9","W","g","X","c","Q","&","t","=","1","0">>,
      <<"d","Q","w","4","w","9","W","g","X","c","Q">>,
      <<"h","t","t","p","s",":","/","/","y","o","u","t","u",".","b","e","/","a","b","c","4","2","9","d","e","f","g","h">>,
      <<"h","t","t","p","s",":","/","/","e","v","i","l",".","c","o","m","?","r","e","f","=","y","o","u","t","u","b","e",".","c","o","m","/","w","a","t","c","h","?","v","=","d","Q","w","4","w","9","W","g","X","c","Q">>,
      <<"f","t","p",":","/","/","y","o","u","t","u","b","e",".","c","o","m","/","w","a","t","c","h","?","v","=","d","Q","w","4","w","9","W","g","X","c","Q">>,
      <<"h","t","t","p","s",":","/","/","e","x","a","m","p","l","e",".","c","o","m","/","v","i","d","e","o">>,
      <<"n","o","t","-","a","-","u","r","l">> }

Languages == { <<"e","n">>, <<"e","s">> }

OutputFormats == {"json", "vtt", "text"}

\* Messages of the DownloadError the capability raises.
CapabilityErrors ==
    { <<"H","T","T","P"," ","E","r","r","o","r"," ","4","2","9",":"," ","T","o","o"," ","M","a","n","y"," ","R","e","q","u","e","s","t","s">>,
      <<"C","o","n","n","e","c","t","i","o","n"," ","r","e","s","e","t"," ","b","y"," ","p","e","e","r">>,
      <<"V","i","d","e","o"," ","u","n","a","v","a","i","l","a","b","l","e">> }

\* What the capability leaves in the working area when it returns a record.
Assets ==
    { NoFile,
      <<>>,
      <<" ","\n">>,
      <<"W","E","B","V","T","T","\n","\n","0","0",":","0","0",":","0","0",".","0","0","0"," ","-","-",">"," ","0","0",":","0","0",":","0","3",".","5","0","0","\n","H","e","l","l","o"," ","w","o","r","l","d","\n">>,
      <<"W","E","B","V","T","T","\n","\n","0","0",":","0","1",".","0","0","0"," ","-","-",">"," ","0","0",":","0","2",".","0","0","0","\n","<","c",">","H","i","<","/","c",">"," ","<","b",">","t","h","e","r","e","\n">>,
      <<"W","E","B","V","T","T","\n","\n","H","e","l","l","o","\n">> }

\* The answers of one invocation of the capability.
CapabilityOutcomes ==
    {[kind |-> "raises", msg |-> m] : m \in CapabilityErrors}
    \cup {[kind |-> "returns_none"]}
    \cup {[kind |-> "returns_info", asset |-> a] : a \in Assets}

\* The identifiers the inputs resolve to.
VideoIds == {extract_video_id(url) : url \in VideoUrls} \ {None}

\* The URLs passed to list_available_languages: two of one video, one of
\* another, one that does not resolve.
ListingUrls ==
    { <<"h","t","t","p","s",":","/","/","y","o","u","t","u",".","b","e","/","d","Q","w","4","w","9","W","g","X","c","Q">>,
      <<"d","Q","w","4","w","9","W","g","X","c","Q">>,
      <<"h","t","t","p","s",":","/","/","y","o","u","t","u",".","b","e","/","a","b","c","4","2","9","d","e","f","g","h">>,
      <<"n","o","t","-","a","-","u","r","l">> }

MaxCodes == 2

\* The dicts info["subtitles"] and info["automatic_captions"] can be: up to
\* MaxCodes items in insertion order, no key twice.  The keys are two codes
\* with a name in LANGUAGE_NAMES and one without; the values are a list of
\* tracks, one of them without an "ext", and a value that is no list.
SubtitleDicts ==
    {d \in UNION {[1..n ->
                     [lang_code : { <<"e","n">>, <<"e","s">>, <<"x","x">> },
                      subs_list : {[is_list |-> TRUE,
                                    tracks |-> <<[ext |-> <<"j","s","o","n","3">>], [ext |-> None]>>],
                                   [is_list |-> FALSE, tracks |-> <<>>]}]] :
                   n \in 0..MaxCodes} :
        \A i, j \in 1..Len(d) : i # j => d[i].lang_code # d[j].lang_code}

Infos == {[subtitles |-> s, automatic_captions |-> a] : s, a \in SubtitleDicts}

\* The answers of the capability to a listing request: two errors, a record
\* with manual English and automatic English and Spanish tracks, and a record
\* with an automatic English track only.
ListingAnswers ==
    {[kind |-> "raises", msg |-> <<"H","T","T","P"," ","E","r","r","o","r"," ","4","2","9",":"," ","T","o","o"," ","M","a","n","y"," ","R","e","q","u","e","s","t","s">>],
     [kind |-> "raises", msg |-> <<"V","i","d","e","o"," ","u","n","a","v","a","i","l","a","b","l","e">>],
     [kind |-> "returns_info",
      info |-> [subtitles |->
                    <<[lang_code |-> <<"e","n">>,
                       subs_list |-> [is_list |-> FALSE, tracks |-> <<>>]]>>,
                automatic_captions |->
                    <<[lang_code |-> <<"e","n">>,
                       subs_list |-> [is_list |-> FALSE, tracks |-> <<>>]],
                      [lang_code |-> <<"e","s">>,
                       subs_list |-> [is_list |-> FALSE, tracks |-> <<>>]]>>]],
     [kind |-> "returns_info",
      info |-> [subtitles |-> <<>>,
                automatic_captions |->
                    <<[lang_code |-> <<"e","n">>,
                       subs_list |-> [is_list |-> FALSE, tracks |-> <<>>]]>>]]}

\* How long a fetch takes, and the times calls are made at.
FetchDurations == {0, 1}

Times == {299, 300, 301}

MaxCalls == 3

-----------------------------------------------------------------------------
(* extract_subtitles                                                       *)

\* Variant of ResolutionFailed: the check of the resolved id is left out.
ResolutionNeverFails(vid) == FALSE

\* "if video_id is None: raise ValueError(...)"
ResolutionFailed(vid) == vid = None

\* Variant of RecordError: only the first error of the call is kept.
KeepFirstError(previous, e) == IF previous = NoError THEN e ELSE previous

\* Variant of RecordError: the error of the attempt is not recorded.
ForgetError(previous, e) == previous

\* "last_error = e"
RecordError(previous, e) == e

\* Variant of ShouldRetry: the test of the attempt number is left out.
RetryWhileTransient(a, e) == is_transient_error(e)

\* Variant of ShouldRetry: the classification of the error is left out.
RetryAnyError(a, e) == a < MAX_RETRIES - 1

\* "if attempt < self.MAX_RETRIES - 1 and self._is_transient_error(e)"
ShouldRetry(a, e) == a < MAX_RETRIES - 1 /\ is_transient_error(e)


-----------------------------------------------------------------------------
(* SubtitleCache (src/app/cache.py) over cachetools.TTLCache               *)

\* settings.cache_ttl and settings.cache_maxsize (src/app/config.py:78-79),
\* scaled down: a TTL of two ticks of the timer and room for two entries.
cache_ttl == 2

cache_maxsize == 2

MaxOps == 4

MaxMonotonic == 2

\* _generate_key: SHA-256 of f"{video_url}:{lang}:{format}"; the digest is
\* taken to be injective, so the key is the text that is hashed.
generate_key(url, l, format) == url \o <<":">> \o l \o <<":">> \o format

\* _generate_languages_key: SHA-256 of f"{video_url}:langs"
generate_languages_key(url) == url \o <<":","l","a","n","g","s">>

\* What a call addresses: a (video_url, lang, format) triple of get and set,
\* or the video_url of get_languages and set_languages.
Subtitle(url, l, format) ==
    [kind |-> "subtitle", video_url |-> url, lang |-> l, format |-> format]

LanguagesOf(url) ==
    [kind |-> "languages", video_url |-> url, lang |-> <<>>, format |-> <<>>]

Addresses ==
    { Subtitle(<<"a">>, <<"e","n">>, <<"j","s","o","n">>),
      Subtitle(<<"a">>, <<"b",":","c">>, <<"j","s","o","n">>), Subtitle(<<"a",":","b">>, <<"c">>, <<"j","s","o","n">>),
      Subtitle(<<"a">>, <<"e","n">>, <<"l","a","n","g","s">>), LanguagesOf(<<"a",":","e","n">>) }

KeyOf(address) ==
    IF address.kind = "subtitle"
    THEN generate_key(address.video_url, address.lang, address.format)
    ELSE generate_languages_key(address.video_url)

\* The data cached.
CacheData == { <<"x">>, <<"y">> }

\* TTLCache.expire(time): the items whose time has come are removed.
Expire(items, time) == SelectSeq(items, LAMBDA e : time < e.expires)

Holds(items, key) == \E i \in 1..Len(items) : items[i].key = key

ItemOf(items, key) == items[CHOOSE i \in 1..Len(items) : items[i].key = key]

Without(items, key) == SelectSeq(items, LAMBDA e : e.key # key)

\* Variant of Fresh: an item is served however old it is.
HeldAtAll(items, key, time) == Holds(items, key)

\* TTLCache.__contains__: the key is there and its time has not come.
Fresh(items, key, time) == Holds(items, key) /\ time < ItemOf(items, key).expires

\* TTLCache.get(key): the value, and the item becomes the most recently used;
\* None for a key that is absent or expired, which is left where it is.
CacheGetItem(items, key, time) ==
    IF Fresh(items, key, time)
    THEN [value |-> ItemOf(items, key).value,
          items |-> Append(Without(items, key), ItemOf(items, key))]
    ELSE [value |-> None, items |-> items]

\* The keys Cache.__setitem__ pops to make room for a new key: the least
\* recently used ones, while the cache is full.
Popped(items, key) ==
    IF Holds(items, key) \/ Len(items) < cache_maxsize
    THEN {}
    ELSE {items[i].key : i \in 1..(Len(items) - cache_maxsize + 1)}

\* TTLCache.__setitem__(key, value): expire, make room, store with a new TTL
\* as the most recently used item.
CacheSetItem(items, key, value, time) ==
    LET live == Expire(items, time)
        kept == SelectSeq(live, LAMBDA e : e.key # key /\ e.key \notin Popped(live, key))
    IN  Append(kept, [key |-> key, value |-> value, expires |-> time + cache_ttl])

\* An address that was never set, or not since the last clear.
NotSet == [set |-> FALSE, value |-> None, at |-> 0, n |-> 0]

NoGet == [n |-> 0, address |-> LanguagesOf(<<>>), value |-> None]

NoHistory ==
    [ops |-> 0, last_set |-> [a \in Addresses |-> NotSet], evicted |-> {}, got |-> NoGet]

-----------------------------------------------------------------------------
(* _fetch_languages (src/app/service.py)                                   *)

\* LANGUAGE_NAMES, reduced to three of its codes.
LANGUAGE_NAMES ==
    (<<"e","n">> :> <<"E","n","g","l","i","s","h">>) @@ (<<"e","s">> :> <<"S","p","a","n","i","s","h">>) @@ (<<"f","r">> :> <<"F","r","e","n","c","h">>)

\* [s.get("ext", "vtt") for s in subs_list] if isinstance(subs_list, list) else ["vtt"]
\* A track without the key "ext" has ext = None.
Formats(subs_list) ==
    IF subs_list.is_list
    THEN [k \in 1..Len(subs_list.tracks) |->
              IF subs_list.tracks[k].ext = None THEN <<"v","t","t">> ELSE subs_list.tracks[k].ext]
    ELSE << <<"v","t","t">> >>

\* The dictionary appended to languages for one item of a subtitles dict; its
\* name is LANGUAGE_NAMES.get(lang_code, lang_code).
LanguageEntry(item, auto_generated) ==
    [code |-> item.lang_code,
     name |-> IF item.lang_code \in DOMAIN LANGUAGE_NAMES
              THEN LANGUAGE_NAMES[item.lang_code]
              ELSE item.lang_code,
     auto_generated |-> auto_generated,
     formats |-> Formats(item.subs_list)]

\* Variant of AlreadyListed: the test is left out.
NeverListed(langs, lang_code) == FALSE

\* lang_code in [lang_entry["code"] for lang_entry in languages]
AlreadyListed(langs, lang_code) == \E k \in 1..Len(langs) : langs[k].code = lang_code

\* The second loop: the items of info["automatic_captions"], in dict order,
\* each appended unless its code is listed already.
RECURSIVE AddAutomatic(_, _)
AddAutomatic(langs, automatic_subs) ==
    IF automatic_subs = <<>>
    THEN langs
    ELSE AddAutomatic(
             IF AlreadyListed(langs, Head(automatic_subs).lang_code)
             THEN langs
             ELSE Append(langs, LanguageEntry(Head(automatic_subs), TRUE)),
             Tail(automatic_subs))

\* What _fetch_languages returns for the record the capability returned.  A
\* dict is the sequence of its items, in insertion order, with distinct keys.
\* The first loop makes one entry per item of info["subtitles"], in dict order.
fetch_languages(i) ==
    AddAutomatic([k \in 1..Len(i.subtitles) |-> LanguageEntry(i.subtitles[k], FALSE)],
                 i.automatic_captions)

-----------------------------------------------------------------------------
(* The language cache (src/app/service.py)                                 *)

language_cache_ttl == 300

\* No exception raised by a listing call.
NoListingError == Error("None", <<>>)

\* A key without an entry in _language_cache, and the tuple stored under a key.
NoEntry == [present |-> FALSE, languages |-> <<>>, timestamp |-> 0]

CacheEntry(langs, t) == [present |-> TRUE, languages |-> langs, timestamp |-> t]

\* Variant of CacheHit: an entry is used however old it is.
HitWhilePresent(cache, vid, t) == cache[vid].present

\* video_id in self._language_cache, and the entry is younger than the TTL.
CacheHit(cache, vid, t) ==
    cache[vid].present /\ t - cache[vid].timestamp < language_cache_ttl

\* del self._language_cache[video_id]
Evict(cache, vid) == [cache EXCEPT ![vid] = NoEntry]

\* self._language_cache[video_id] = (languages, time.time())
Store(cache, vid, langs, t) == [cache EXCEPT ![vid] = CacheEntry(langs, t)]

\* The capability was not invoked.
NotFetched ==
    [ok |-> FALSE, invocations |-> 0, sleeps |-> 0, error |-> NoListingError,
     languages |-> <<>>]

\* Variant of FetchLanguages: transient errors go through the retry loop of
\* extract_subtitles.
FetchWithRetries(out) ==
    IF out.kind = "raises"
    THEN [ok |-> FALSE,
          invocations |-> IF is_transient_error(Error("DownloadError", out.msg))
                          THEN MAX_RETRIES ELSE 1,
          sleeps |-> IF is_transient_error(Error("DownloadError", out.msg))
                     THEN MAX_RETRIES - 1 ELSE 0,
          error |-> Error("DownloadError", out.msg),
          languages |-> <<>>]
    ELSE [ok |-> TRUE, invocations |-> 1, sleeps |-> 0, error |-> NoListingError,
          languages |-> fetch_languages(out.info)]

\* self._fetch_languages(video_url, video_id): ydl.extract_info is called once,
\* with no loop and no handler around it, and answers `out`.
FetchLanguages(out) ==
    IF out.kind = "raises"
    THEN [ok |-> FALSE, invocations |-> 1, sleeps |-> 0,
          error |-> Error("DownloadError", out.msg), languages |-> <<>>]
    ELSE [ok |-> TRUE, invocations |-> 1, sleeps |-> 0, error |-> NoListingError,
          languages |-> fetch_languages(out.info)]

\* What one call on the extractor did: the operation and its argument resolved
\* to a video id, the time the call was made at, what the capability answered
\* and how often it was invoked, the exception raised and the list returned,
\* and the time the call ended at.
Called(op, vid, t, answer, fetched, error, langs, end) ==
    [op |-> op, video_id |-> vid, at |-> t, answer |-> answer,
     invocations |-> fetched.invocations, sleeps |-> fetched.sleeps,
     raised |-> error, languages |-> langs, end |-> end]

\* No answer of the capability: it was not invoked.
NoAnswer == [kind |-> "none"]

\* The cache missed: the listing is fetched, which takes until `end`, and is
\* stored with the time read after the fetch; a failed fetch raises past the
\* store.
FetchAndStore(cache, vid, t, out, fetched, end) ==
    [cache |-> IF fetched.ok THEN Store(cache, vid, fetched.languages, end) ELSE cache,
     now |-> end,
     call |-> Called("list", vid, t, out, fetched, fetched.error, fetched.languages, end)]

\* list_available_languages for a resolved video id.
ListResolved(cache, vid, t, out, d) ==
    IF CacheHit(cache, vid, t)
    THEN [cache |-> cache,
          now |-> t,
          call |-> Called("list", vid, t, NoAnswer, NotFetched, NoListingError,
                          cache[vid].languages, t)]
    ELSE FetchAndStore(IF cache[vid].present THEN Evict(cache, vid) ELSE cache,
                       vid, t, out, FetchLanguages(out), t + d)

\* list_available_languages(video_url) called at time t on an extractor whose
\* cache is `cache`; the capability, if invoked, answers `out` after d seconds.
list_available_languages(cache, t, url, out, d) ==
    IF ResolutionFailed(extract_video_id(url))
    THEN [cache |-> cache,
          now |-> t,
          call |-> Called("list", None, t, NoAnswer, NotFetched,
                          Error("ValueError", InvalidUrlMessage(url)), <<>>, t)]
    ELSE ListResolved(cache, extract_video_id(url), t, out, d)

\* Variant of clear_language_cache: every entry is removed, whatever the argument.
ClearEverything(cache, vid) == [v \in DOMAIN cache |-> NoEntry]

\* clear_language_cache(video_id)
clear_language_cache(cache, vid) ==
    IF vid = None
    THEN [v \in DOMAIN cache |-> NoEntry]
    ELSE IF vid \in DOMAIN cache /\ cache[vid].present
         THEN Evict(cache, vid)
         ELSE cache
\* A function that has not been applied, and one that has returned `value`.
NotCalled == [done |-> FALSE, value |-> FALSE]

Gave(value) == [done |-> TRUE, value |-> value]

FunIdle ==
    /\ argument = <<>>
    /\ returned = NotCalled

\* An empty table, before any cleanup.
DbIdle ==
    /\ rows = {}
    /\ utc = 0
    /\ deleted_counts = <<>>

\* SubtitleCache.__init__ (src/app/cache.py:49-61)
StoreIdle ==
    /\ subtitle_cache = [items |-> <<>>, hits |-> 0, misses |-> 0]
    /\ monotonic = 0
    /\ cache_history = NoHistory

\* The calling threads of one extractor.
Threads == {1, 2}

\* A thread about to call `op`, and what a call came to.
NoOutcome == [kind |-> "none", error |-> NoListingError, languages |-> <<>>]

ReturnedListing(langs) == [kind |-> "returned", error |-> NoListingError, languages |-> langs]

Raised(error) == [kind |-> "raised", error |-> error, languages |-> <<>>]

Starting(op) ==
    [op |-> op, pc |-> "check", seen |-> NoEntry, fetched |-> <<>>, stored |-> NoEntry,
     outcome |-> NoOutcome]

RaceIdle == threads = [t \in Threads |-> Starting("none")]

\* The requests in flight.
Requests == {1, 2}

NotCancelled == [cancelled |-> FALSE, asleep |-> FALSE, invocations |-> 0]

\* A request that has not arrived.
NoRequest ==
    [stage |-> "none", video_url |-> None, lang |-> None, output_format |-> NoFormat,
     video_id |-> None, pc |-> "idle", attempt |-> 0, last_error |-> NoListingError,
     invocations |-> 0, sleeps |-> <<>>, answers |-> <<>>, reads |-> <<>>, dir |-> 0,
     result |-> NoResult, raised |-> NoListingError, cancel |-> NotCancelled,
     status_code |-> 0]

\* A request that has arrived and waits for the event loop.
Pending(url, l, fmt) ==
    [NoRequest EXCEPT !.stage = "pending", !.video_url = url, !.lang = l,
                      !.output_format = fmt]

CallsIdle ==
    /\ requests = [i \in Requests |-> NoRequest]
    /\ areas = [dirs |-> {}, files |-> {}]
    /\ loop = 0

\* DatabaseEngine.__init__ and DatabaseLifecycle.__init__, on a database file
\* that does not exist yet (src/app/database.py:54-66, 311-322).
LifeIdle ==
    /\ engine = "None"
    /\ tables = FALSE
    /\ cleanup_task = "None"
    /\ shutdown_event = "None"
    /\ lifecycle = "constructed"

\* The calls of set_cached_subtitle that run at once.
Writers == {1, 2}

\* A call that has not been made.
NoWriter == [pc |-> "none", key |-> "", subtitle_data |-> "", existing |-> 0]

UpsertIdle ==
    /\ table = {}
    /\ writers = [w \in Writers |-> NoWriter]

\* The coroutines that call _check_rate_limit.
Callers == {1, 2}

\* A coroutine that is not in _check_rate_limit.
NoCall == [pc |-> "out", ip |-> ""]

\* The module after import (src/app/main.py:81-83).
LimitIdle ==
    /\ rate_limit_tracker = <<>>
    /\ rate_limit_lock = 0
    /\ callers = [c \in Callers |-> NoCall]
    /\ wall = 0
    /\ verdicts = <<>>
    /\ max_requests = 1

\* The coroutines that serve requests at once.
Handlers == {1, 2}

\* No item in the in-memory tier, no row in the persistent tier.
NoItem == [held |-> FALSE, data |-> "", expires |-> 0, by |-> ""]

NoRow == [held |-> FALSE, subtitle_data |-> "", expires_at |-> [set |-> FALSE, at |-> 0],
          written_at |-> 0, by |-> ""]

\* A coroutine that serves no request.
NoHandler == [pc |-> "idle", endpoint |-> "", existing |-> FALSE, wrote |-> {}]

ApiIdle ==
    /\ settings = [cache_ttl |-> 3600, format |-> "json"]
    /\ memory = NoItem
    /\ persistent = NoRow
    /\ clock = 0
    /\ handlers = [h \in Handlers |-> NoHandler]
    /\ served = <<>>
ExtractIdle ==
    /\ pc = "idle"
    /\ video_url = None
    /\ lang = None
    /\ output_format = NoFormat
    /\ video_id = None
    /\ attempt = 0
    /\ last_error = NoError
    /\ invocations = 0
    /\ sleeps = <<>>
    /\ outcomes = <<>>
    /\ answers = <<>>
    /\ temp_dirs = [acquired |-> 0, existing |-> 0]
    /\ result = NoResult
    /\ raised = NoError

ParseIdle ==
    /\ vtt_content = <<>>
    /\ small_entries = NotRun
    /\ stream_entries = NotRun

CacheIdle ==
    /\ language_cache = [v \in VideoIds |-> NoEntry]
    /\ now = 0
    /\ lang_calls = <<>>

FetchIdle ==
    /\ info = [subtitles |-> <<>>, automatic_captions |-> <<>>]
    /\ languages = NotRun

\* A caller calls extract_subtitles(url, l, fmt): the reference is resolved and
\* the call either raises at once or reaches the retry loop.
Call(url, l, fmt) ==
    /\ pc = "idle"
    /\ video_url' = url
    /\ lang' = l
    /\ output_format' = fmt
    /\ video_id' = extract_video_id(url)
    /\ IF ResolutionFailed(extract_video_id(url))
       THEN /\ pc' = "raised"
            /\ raised' = [type |-> "ValueError", msg |-> InvalidUrlMessage(url), at |-> 0]
       ELSE /\ pc' = "loop"
            /\ raised' = raised
    /\ UNCHANGED <<attempt, last_error, invocations, sleeps, outcomes, answers, temp_dirs,
                   result>>
    /\ UNCHANGED <<parse_vars, cache_vars, fetch_vars, fun_vars, db_vars, store_vars,
                   race_vars, call_vars, life_vars, upsert_vars, limit_vars, api_vars>>

\* "with tempfile.TemporaryDirectory(...) as temp_dir": a new directory.
AcquireArea(dirs) == [acquired |-> dirs.acquired + 1, existing |-> dirs.existing + 1]

\* Variant of ReleaseArea: the directory is left behind.
KeepArea(dirs) == dirs

\* The with statement is left, by return or by exception: the directory is
\* removed.
ReleaseArea(dirs) == [dirs EXCEPT !.existing = dirs.existing - 1]

\* One iteration of the for loop begins: the with statement creates the
\* temporary directory of this attempt.
EnterAttempt ==
    /\ pc = "loop"
    /\ pc' = "attempt"
    /\ temp_dirs' = AcquireArea(temp_dirs)
    /\ UNCHANGED <<video_url, lang, output_format, video_id, attempt, last_error,
                   invocations, sleeps, outcomes, answers, result, raised>>
    /\ UNCHANGED <<parse_vars, cache_vars, fetch_vars, fun_vars, db_vars, store_vars,
                   race_vars, call_vars, life_vars, upsert_vars, limit_vars, api_vars>>

\* The fallback at the end of extract_subtitles (src/app/service.py:694).
RuntimeError == [type |-> "RuntimeError", msg |-> <<"U","n","e","x","p","e","c","t","e","d"," ","e","r","r","o","r"," ","e","x","t","r","a","c","t","i","n","g"," ","s","u","b","t","i","t","l","e","s">>, at |-> 0]

\* "if last_error: raise last_error", else the fallback RuntimeError
\* (src/app/service.py:689-694).
RaiseAfterLoop(e) == IF e # NoError THEN e ELSE RuntimeError

\* The except clause with the exception e of this attempt: the error is
\* recorded; the loop sleeps and goes on, or breaks and last_error is raised.
HandleError(e) ==
    /\ outcomes' = Append(outcomes, e)
    /\ last_error' = RecordError(last_error, e)
    /\ result' = result
    /\ IF ShouldRetry(attempt, e)
       THEN /\ pc' = "sleep"
            /\ raised' = raised
       ELSE /\ pc' = "raised"
            /\ raised' = RaiseAfterLoop(last_error')

\* The attempt is over with r, the outcome of _extract_subtitles_once.
FinishAttempt(r) ==
    IF r.ok
    THEN /\ outcomes' = Append(outcomes, [type |-> "ok", msg |-> <<>>, at |-> attempt + 1])
         /\ pc' = "returned"
         /\ result' = r.value
         /\ UNCHANGED <<last_error, raised>>
    ELSE HandleError([type |-> r.error.type, msg |-> r.error.msg, at |-> attempt + 1])

\* The capability is invoked and answers with `out`; _extract_subtitles_once
\* finishes; the with statement removes the directory; the result is returned
\* or the except clause records the error and decides between retry and break.
RunAttempt(out) ==
    /\ pc = "attempt"
    /\ invocations' = invocations + 1
    /\ answers' = Append(answers, out)
    /\ temp_dirs' = ReleaseArea(temp_dirs)
    /\ FinishAttempt(extract_subtitles_once(video_id, lang, output_format, out))
    /\ UNCHANGED <<video_url, lang, output_format, video_id, attempt, sleeps>>
    /\ UNCHANGED <<parse_vars, cache_vars, fetch_vars, fun_vars, db_vars, store_vars,
                   race_vars, call_vars, life_vars, upsert_vars, limit_vars, api_vars>>

\* time.sleep(delay) returns and the for loop goes on to the next value of
\* attempt; when range(MAX_RETRIES) is used up the loop ends and the code after
\* it raises last_error.
Sleep(jitter) ==
    /\ pc = "sleep"
    /\ sleeps' = Append(sleeps, calculate_retry_delay(attempt, jitter))
    /\ attempt' = attempt + 1
    /\ IF attempt + 1 < MAX_RETRIES
       THEN /\ pc' = "loop"
            /\ raised' = raised
       ELSE /\ pc' = "raised"
            /\ raised' = RaiseAfterLoop(last_error)
    /\ UNCHANGED <<video_url, lang, output_format, video_id, last_error, invocations,
                   outcomes, answers, temp_dirs, result>>
    /\ UNCHANGED <<parse_vars, cache_vars, fetch_vars, fun_vars, db_vars, store_vars,
                   race_vars, call_vars, life_vars, upsert_vars, limit_vars, api_vars>>

\* The caller has the result or the exception; the call's locals are gone.
Finish ==
    /\ pc \in {"returned", "raised"}
    /\ pc' = "idle"
    /\ video_url' = None
    /\ lang' = None
    /\ output_format' = NoFormat
    /\ video_id' = None
    /\ attempt' = 0
    /\ last_error' = NoError
    /\ invocations' = 0
    /\ sleeps' = <<>>
    /\ outcomes' = <<>>
    /\ answers' = <<>>
    /\ temp_dirs' = [acquired |-> 0, existing |-> temp_dirs.existing]
    /\ result' = NoResult
    /\ raised' = NoError
    /\ UNCHANGED <<parse_vars, cache_vars, fetch_vars, fun_vars, db_vars, store_vars,
                   race_vars, call_vars, life_vars, upsert_vars, limit_vars, api_vars>>

Init == ParseIdle /\ ExtractIdle /\ CacheIdle /\ FetchIdle /\ FunIdle /\ DbIdle /\
        StoreIdle /\ RaceIdle /\ CallsIdle /\ LifeIdle /\ UpsertIdle /\ LimitIdle /\
        ApiIdle

Next ==
    \/ \E url \in VideoUrls, l \in Languages, fmt \in OutputFormats : Call(url, l, fmt)
    \/ EnterAttempt
    \/ \E out \in CapabilityOutcomes : RunAttempt(out)
    \/ \E jitter \in Jitters : Sleep(jitter)
    \/ Finish

Spec == Init /\ [][Next]_vars

-----------------------------------------------------------------------------
(* The parsers applied to caption texts                                    *)

\* _parse_vtt_to_json(vtt_content) is called.
ParseToJson ==
    /\ small_entries = NotRun
    /\ small_entries' = Returned(ParseVttToJson(vtt_content))
    /\ UNCHANGED <<vtt_content, stream_entries>>
    /\ UNCHANGED <<extract_vars, cache_vars, fetch_vars, fun_vars, db_vars, store_vars,
                   race_vars, call_vars, life_vars, upsert_vars, limit_vars, api_vars>>

\* _parse_vtt_streaming(vtt_content) is called.
ParseStreaming ==
    /\ stream_entries = NotRun
    /\ stream_entries' = Returned(ParseVttStreaming(vtt_content))
    /\ UNCHANGED <<vtt_content, small_entries>>
    /\ UNCHANGED <<extract_vars, cache_vars, fetch_vars, fun_vars, db_vars, store_vars,
                   race_vars, call_vars, life_vars, upsert_vars, limit_vars, api_vars>>

InitParse ==
    /\ vtt_content \in CaptionTexts
    /\ small_entries = NotRun
    /\ stream_entries = NotRun
    /\ ExtractIdle /\ CacheIdle /\ FetchIdle /\ FunIdle /\ DbIdle /\ StoreIdle /\
       RaceIdle /\ CallsIdle /\ LifeIdle /\ UpsertIdle /\ LimitIdle /\ ApiIdle

NextParse == ParseToJson \/ ParseStreaming

SpecParse == InitParse /\ [][NextParse]_vars

-----------------------------------------------------------------------------
(* The language listing on one extractor                                   *)

\* The call has been made: its effect on the cache, the clock and the record
\* of calls.
Apply(done) ==
    /\ language_cache' = done.cache
    /\ now' = done.now
    /\ lang_calls' = Append(lang_calls, done.call)
    /\ UNCHANGED <<parse_vars, extract_vars, fetch_vars, fun_vars, db_vars, store_vars,
                   race_vars, call_vars, life_vars, upsert_vars, limit_vars, api_vars>>

\* A caller calls list_available_languages(url).
ListLanguages(url, out, d) ==
    /\ Len(lang_calls) < MaxCalls
    /\ Apply(list_available_languages(language_cache, now, url, out, d))

\* A caller calls clear_language_cache(vid).
ClearLanguageCache(vid) ==
    /\ Len(lang_calls) < MaxCalls
    /\ Apply([cache |-> clear_language_cache(language_cache, vid),
              now |-> now,
              call |-> Called("clear", vid, now, NoAnswer, NotFetched, NoListingError,
                              <<>>, now)])

\* Time passes between two calls.
Tick(t) ==
    /\ Len(lang_calls) < MaxCalls
    /\ t > now
    /\ now' = t
    /\ UNCHANGED <<language_cache, lang_calls>>
    /\ UNCHANGED <<parse_vars, extract_vars, fetch_vars, fun_vars, db_vars, store_vars,
                   race_vars, call_vars, life_vars, upsert_vars, limit_vars, api_vars>>

NextLang ==
    \/ \E url \in ListingUrls, out \in ListingAnswers, d \in FetchDurations :
          ListLanguages(url, out, d)
    \/ \E vid \in VideoIds \cup {None} : ClearLanguageCache(vid)
    \/ \E t \in Times : Tick(t)

SpecLang == Init /\ [][NextLang]_vars

-----------------------------------------------------------------------------
(* _fetch_languages applied to the records of the capability               *)

\* _fetch_languages is called and the capability returns info.
FetchLanguagesCall ==
    /\ languages = NotRun
    /\ languages' = Returned(fetch_languages(info))
    /\ UNCHANGED info
    /\ UNCHANGED <<parse_vars, extract_vars, cache_vars, fun_vars, db_vars, store_vars,
                   race_vars, call_vars, life_vars, upsert_vars, limit_vars, api_vars>>

InitMerge ==
    /\ info \in Infos
    /\ languages = NotRun
    /\ ParseIdle /\ ExtractIdle /\ CacheIdle /\ FunIdle /\ DbIdle /\ StoreIdle /\
       RaceIdle /\ CallsIdle /\ LifeIdle /\ UpsertIdle /\ LimitIdle /\ ApiIdle

SpecMerge == InitMerge /\ [][FetchLanguagesCall]_vars

-----------------------------------------------------------------------------
(* _is_transient_error applied to error texts                              *)

\* str.upper(), used to write the inputs.
Upper(s) ==
    [i \in 1..Len(s) |->
        IF s[i] \in LowerLetters
        THEN UPPERCASE[CHOOSE k \in 1..Len(LOWERCASE) : LOWERCASE[k] = s[i]]
        ELSE s[i]]

\* What the texts of the errors are made of: the status codes and phrases of
\* src/app/service.py:358-372, and texts that are none of them.
ErrorPhrases ==
    transient_status_codes \cup transient_patterns
    \cup { <<"4","0","4">>, <<"4","0","3"," ","f","o","r","b","i","d","d","e","n">>, <<"v","i","d","e","o"," ","u","n","a","v","a","i","l","a","b","l","e">>, <<"p","r","i","v","a","t","e"," ","v","i","d","e","o">>,
           <<"t","e","m","p","o","r","a","r">>, <<"t","i","m","e"," ","o","u","t">>, <<"4","2"," ","9">>, <<"c","o","n","n","e","c","t","i","o","n"," ","l","o","s","t">> }

\* str(error) for the errors classified: each phrase bare, after the prefix of
\* a yt-dlp message and before a suffix, in lower case, in upper case and
\* capitalized.
ErrorTexts ==
    UNION {{t, <<"E","R","R","O","R",":"," ","[","y","o","u","t","u","b","e","]"," ","d","Q","w","4","w","9","W","g","X","c","Q",":"," ">> \o t, t \o <<" ","(","c","a","u","s","e","d"," ","b","y"," ","p","e","e","r",")">>} :
           t \in UNION {{p, Upper(p), <<Upper(p)[1]>> \o Tail(p)} : p \in ErrorPhrases}}

\* _is_transient_error(error) is called.
Classify ==
    /\ ~returned.done
    /\ returned' = Gave(is_transient_error(Error("DownloadError", argument)))
    /\ UNCHANGED argument
    /\ UNCHANGED <<parse_vars, extract_vars, cache_vars, fetch_vars, db_vars,
                   store_vars, race_vars, call_vars, life_vars, upsert_vars,
                   limit_vars, api_vars>>

InitClassify ==
    /\ argument \in ErrorTexts
    /\ returned = NotCalled
    /\ ParseIdle /\ ExtractIdle /\ CacheIdle /\ FetchIdle /\ DbIdle /\ StoreIdle /\
       RaceIdle /\ CallsIdle /\ LifeIdle /\ UpsertIdle /\ LimitIdle /\ ApiIdle

SpecClassify == InitClassify /\ [][Classify]_vars

-----------------------------------------------------------------------------
(* is_valid_youtube_url and extract_video_id applied to inputs             *)

UrlSchemes == { <<"h","t","t","p","s",":","/","/">>, <<"h","t","t","p",":","/","/">>, <<"f","t","p",":","/","/">>, <<"H","T","T","P","S",":","/","/">>, <<>> }

UrlHosts ==
    VALID_HOSTS
    \cup { <<"W","W","W",".","Y","o","u","T","u","b","e",".","c","o","m">>, <<"w","w","w",".","y","o","u","t","u","b","e",".","c","o","m",":","4","4","3">>, <<"m","u","s","i","c",".","y","o","u","t","u","b","e",".","c","o","m">>,
           <<"e","v","i","l",".","c","o","m">>, <<"f","a","k","e","y","o","u","t","u","b","e",".","c","o","m">> }

\* What follows the host: the shapes of src/tests/test_utils.py:88-150, and
\* paths and queries that only contain such a shape further on.
UrlTails ==
    { <<"/","w","a","t","c","h","?","v","=","d","Q","w","4","w","9","W","g","X","c","Q">>, <<"/","w","a","t","c","h","?","v","=","d","Q","w","4","w","9","W","g","X","c","Q","&","t","=","1","0">>, <<"/","e","m","b","e","d","/","d","Q","w","4","w","9","W","g","X","c","Q">>,
      <<"/","s","h","o","r","t","s","/","d","Q","w","4","w","9","W","g","X","c","Q">>, <<"/","d","Q","w","4","w","9","W","g","X","c","Q">>, <<"/","w","a","t","c","h","?","v","=","d","Q","w","4","w","9","W","g">>,
      <<"/","p","l","a","y","l","i","s","t","?","l","i","s","t","=","P","L","r","A","X","t","m","E","r","Z","g","O","e">>, <<"/","r","e","d","i","r","e","c","t","?","q","=","y","o","u","t","u",".","b","e","/","d","Q","w","4","w","9","W","g","X","c","Q">>,
      <<"?","r","e","f","=","y","o","u","t","u","b","e",".","c","o","m","/","w","a","t","c","h","?","v","=","d","Q","w","4","w","9","W","g","X","c","Q">>, <<>> }

\* Inputs that are no URL.
BareInputs ==
    { <<"d","Q","w","4","w","9","W","g","X","c","Q">>, <<"d","Q","w","4","w","9","W","g","X","c","Q">> \o <<"\n">>, <<"d","Q","w","4","w","9","W","g">>, <<"t","o","o","l","o","n","g","v","i","d","e","o","i","d","1","2","3">>,
      <<"n","o","t","-","a","-","u","r","l">> }

UrlInputs ==
    BareInputs \cup { s \o h \o t : s \in UrlSchemes, h \in UrlHosts, t \in UrlTails }

\* is_valid_youtube_url(url) and extract_video_id(url) are called.
Validate ==
    /\ ~returned.done
    /\ returned' = Gave([valid |-> is_valid_youtube_url(argument),
                         id    |-> extract_video_id(argument)])
    /\ UNCHANGED argument
    /\ UNCHANGED <<parse_vars, extract_vars, cache_vars, fetch_vars, db_vars,
                   store_vars, race_vars, call_vars, life_vars, upsert_vars,
                   limit_vars, api_vars>>

InitUrl ==
    /\ argument \in UrlInputs \ {<<>>}
    /\ returned = NotCalled
    /\ ParseIdle /\ ExtractIdle /\ CacheIdle /\ FetchIdle /\ DbIdle /\ StoreIdle /\
       RaceIdle /\ CallsIdle /\ LifeIdle /\ UpsertIdle /\ LimitIdle /\ ApiIdle

SpecUrl == InitUrl /\ [][Validate]_vars

-----------------------------------------------------------------------------
(* DatabaseEngine: the subtitle_cache table and cleanup_expired            *)
(* (src/app/database.py, src/app/models.py)                                *)

MaxUtc == 2

MaxCleanups == 2

\* The (video_url, language, output_format) triples of the unique constraint.
RowKeys == {"a/en/json", "b/en/json", "b/en/vtt"}

\* Default TTL for cache entries (src/app/models.py:13).
DEFAULT_CACHE_TTL_HOURS == 24

\* "ttl_hours: int | None": None is the empty sequence, an integer h is <<h>>.
NoTtl == <<>>

Hours(h) == <<h>>

\* ttl_hours as passed to set_cached_subtitle.
TtlHours == {NoTtl} \cup {Hours(h) : h \in {-1, 0, 1, 2}}

\* expires_at: NULL, or a time.
Never == [set |-> FALSE, at |-> 0]

ExpiresAt(t) == [set |-> TRUE, at |-> t]

\* models.get_expires_at: utcnow() + timedelta(hours=ttl_hours)
\* (src/app/models.py:26-35).
get_expires_at(ttl_hours) == ExpiresAt(utc + ttl_hours)

\* "expires_at = get_expires_at(ttl_hours) if ttl_hours else None": None and 0
\* are both false (src/app/database.py:231).
ExpiresAtFor(ttl_hours) ==
    IF ttl_hours = NoTtl \/ ttl_hours = Hours(0) THEN Never
    ELSE get_expires_at(ttl_hours[1])

\* Variant of IsExpired: a row that expires now counts as expired.
ExpiredOrDue(row, t) == row.expires_at.set /\ row.expires_at.at <= t

\* The WHERE clause of cleanup_expired and get_expired_entries:
\* expires_at IS NOT NULL AND expires_at < now (src/app/database.py:151-154).
IsExpired(row, t) == row.expires_at.set /\ row.expires_at.at < t

\* The table after set_cached_subtitle has committed: the row of the triple is
\* updated if there is one, inserted if not (src/app/database.py:220-251).
\* The field ttl_hours of a row is not a column: it keeps the argument of the
\* call that wrote the row.
Upsert(key, ttl_hours) ==
    {r \in rows : r.key # key}
    \cup {[key |-> key, expires_at |-> ExpiresAtFor(ttl_hours), ttl_hours |-> ttl_hours]}

\* set_cached_subtitle: the row of the triple is updated, or inserted
\* (src/app/database.py:197-252).
SetCachedSubtitle ==
    /\ \E key \in RowKeys, ttl_hours \in TtlHours : rows' = Upsert(key, ttl_hours)
    /\ UNCHANGED <<utc, deleted_counts>>
    /\ UNCHANGED <<parse_vars, extract_vars, cache_vars, fetch_vars, fun_vars,
                   store_vars, race_vars, call_vars, life_vars, upsert_vars,
                   limit_vars, api_vars>>

\* cleanup_expired: one DELETE statement, committed; returns rowcount or 0
\* (src/app/database.py:141-160).
CleanupExpired ==
    /\ Len(deleted_counts) < MaxCleanups
    /\ rows' = {r \in rows : ~IsExpired(r, utc)}
    /\ deleted_counts' = Append(deleted_counts, Cardinality(rows \ rows'))
    /\ UNCHANGED utc
    /\ UNCHANGED <<parse_vars, extract_vars, cache_vars, fetch_vars, fun_vars,
                   store_vars, race_vars, call_vars, life_vars, upsert_vars,
                   limit_vars, api_vars>>

\* An hour passes.
TickUtc ==
    /\ utc < MaxUtc
    /\ utc' = utc + 1
    /\ UNCHANGED <<rows, deleted_counts>>
    /\ UNCHANGED <<parse_vars, extract_vars, cache_vars, fetch_vars, fun_vars,
                   store_vars, race_vars, call_vars, life_vars, upsert_vars,
                   limit_vars, api_vars>>

NextDb == SetCachedSubtitle \/ CleanupExpired \/ TickUtc

SpecDb == Init /\ [][NextDb]_vars

-----------------------------------------------------------------------------
(* SubtitleCache: get, set, get_languages, set_languages, clear            *)

\* get(video_url, lang, format) and get_languages(video_url): a miss for None,
\* else a hit (src/app/cache.py:110-133, 158-178).
CacheGet ==
    /\ cache_history.ops < MaxOps
    /\ \E address \in Addresses :
          LET found == CacheGetItem(subtitle_cache.items, KeyOf(address), monotonic)
              n     == cache_history.ops + 1
          IN  /\ subtitle_cache' =
                    [items  |-> found.items,
                     hits   |-> subtitle_cache.hits + (IF found.value = None THEN 0 ELSE 1),
                     misses |-> subtitle_cache.misses + (IF found.value = None THEN 1 ELSE 0)]
              /\ cache_history' =
                    [cache_history EXCEPT
                        !.ops = n,
                        !.got = [n |-> n, address |-> address, value |-> found.value]]
    /\ UNCHANGED monotonic
    /\ UNCHANGED <<parse_vars, extract_vars, cache_vars, fetch_vars, fun_vars, db_vars,
                   race_vars, call_vars, life_vars, upsert_vars, limit_vars, api_vars>>

\* set(video_url, lang, format, data) and set_languages(video_url, data)
\* (src/app/cache.py:135-150, 180-192).
CacheSet ==
    /\ cache_history.ops < MaxOps
    /\ \E address \in Addresses, data \in CacheData :
          LET key  == KeyOf(address)
              live == Expire(subtitle_cache.items, monotonic)
              n    == cache_history.ops + 1
          IN  /\ subtitle_cache' =
                    [subtitle_cache EXCEPT
                        !.items = CacheSetItem(subtitle_cache.items, key, data, monotonic)]
              /\ cache_history' =
                    [cache_history EXCEPT
                        !.ops = n,
                        !.last_set[address] =
                            [set |-> TRUE, value |-> data, at |-> monotonic, n |-> n],
                        !.evicted = (cache_history.evicted \cup Popped(live, key)) \ {key}]
    /\ UNCHANGED monotonic
    /\ UNCHANGED <<parse_vars, extract_vars, cache_vars, fetch_vars, fun_vars, db_vars,
                   race_vars, call_vars, life_vars, upsert_vars, limit_vars, api_vars>>

\* clear() (src/app/cache.py:152-156)
CacheClear ==
    /\ cache_history.ops < MaxOps
    /\ subtitle_cache' = [subtitle_cache EXCEPT !.items = <<>>]
    /\ cache_history' =
          [cache_history EXCEPT
              !.ops = cache_history.ops + 1,
              !.last_set = [a \in Addresses |-> NotSet],
              !.evicted = {}]
    /\ UNCHANGED monotonic
    /\ UNCHANGED <<parse_vars, extract_vars, cache_vars, fetch_vars, fun_vars, db_vars,
                   race_vars, call_vars, life_vars, upsert_vars, limit_vars, api_vars>>

\* time.monotonic() advances.
TickMonotonic ==
    /\ monotonic < MaxMonotonic
    /\ monotonic' = monotonic + 1
    /\ UNCHANGED <<subtitle_cache, cache_history>>
    /\ UNCHANGED <<parse_vars, extract_vars, cache_vars, fetch_vars, fun_vars, db_vars,
                   race_vars, call_vars, life_vars, upsert_vars, limit_vars, api_vars>>

NextStore == CacheGet \/ CacheSet \/ CacheClear \/ TickMonotonic

SpecStore == Init /\ [][NextStore]_vars

-----------------------------------------------------------------------------
(* list_available_languages and clear_language_cache called by two threads *)
(* on one extractor for one video id, statement by statement               *)
(* (src/app/service.py:769-787, 796-801; the extractor holds no lock)      *)

RaceVideoId == <<"d","Q","w","4","w","9","W","g","X","c","Q">>

\* dict.__getitem__ and dict.__delitem__ raise KeyError for a missing key.
KeyError == Error("KeyError", RaceVideoId)

\* The thread goes on to the statement `pc` with its locals changed.
Goto(t, pc_, changes) ==
    threads' = [threads EXCEPT ![t] = [changes EXCEPT !.pc = pc_]]

\* The call of the thread ends.
Leave(t, outcome) ==
    threads' = [threads EXCEPT ![t].pc = "done", ![t].outcome = outcome]

\* One statement of list_available_languages in thread t, for a URL that
\* resolves to RaceVideoId.
ListStep(t) ==
    LET self  == threads[t]
        entry == language_cache[RaceVideoId]
    IN  /\ self.op = "list"
        /\ \/ \* 770: if video_id in self._language_cache
              /\ self.pc = "check"
              /\ Goto(t, IF entry.present THEN "read" ELSE "fetch", self)
              /\ UNCHANGED language_cache
           \/ \* 771: languages, timestamp = self._language_cache[video_id]
              /\ self.pc = "read"
              /\ IF entry.present
                 THEN Goto(t, "expiry", [self EXCEPT !.seen = entry])
                 ELSE Leave(t, Raised(KeyError))
              /\ UNCHANGED language_cache
           \/ \* 772-774: if time.time() - timestamp < ttl: return
              /\ self.pc = "expiry"
              /\ IF now - self.seen.timestamp < language_cache_ttl
                 THEN Leave(t, ReturnedListing(self.seen.languages))
                 ELSE Goto(t, "del", self)
              /\ UNCHANGED language_cache
           \/ \* 777: del self._language_cache[video_id]
              /\ self.pc = "del"
              /\ IF entry.present
                 THEN /\ Goto(t, "fetch", self)
                      /\ language_cache' = Evict(language_cache, RaceVideoId)
                 ELSE /\ Leave(t, Raised(KeyError))
                      /\ UNCHANGED language_cache
           \/ \* 781: languages = self._fetch_languages(video_url, video_id)
              /\ self.pc = "fetch"
              /\ \E out \in ListingAnswers :
                    LET fetched == FetchLanguages(out)
                    IN  IF fetched.ok
                        THEN Goto(t, "store", [self EXCEPT !.fetched = fetched.languages])
                        ELSE Leave(t, Raised(fetched.error))
              /\ UNCHANGED language_cache
           \/ \* 784-787: self._language_cache[video_id] = (languages, time.time())
              /\ self.pc = "store"
              /\ language_cache' = Store(language_cache, RaceVideoId, self.fetched, now)
              /\ threads' = [threads EXCEPT
                                ![t].pc = "done",
                                ![t].stored = CacheEntry(self.fetched, now),
                                ![t].outcome = ReturnedListing(self.fetched)]
        /\ UNCHANGED <<now, lang_calls>>
        /\ UNCHANGED <<parse_vars, extract_vars, fetch_vars, fun_vars, db_vars,
                       store_vars, call_vars, life_vars, upsert_vars, limit_vars,
                       api_vars>>

\* One statement of clear_language_cache(RaceVideoId) in thread t.
ClearStep(t) ==
    LET self  == threads[t]
        entry == language_cache[RaceVideoId]
    IN  /\ self.op = "clear"
        /\ \/ \* 799: elif video_id in self._language_cache
              /\ self.pc = "check"
              /\ IF entry.present THEN Goto(t, "del", self) ELSE Leave(t, ReturnedListing(<<>>))
              /\ UNCHANGED language_cache
           \/ \* 800: del self._language_cache[video_id]
              /\ self.pc = "del"
              /\ IF entry.present
                 THEN /\ Leave(t, ReturnedListing(<<>>))
                      /\ language_cache' = Evict(language_cache, RaceVideoId)
                 ELSE /\ Leave(t, Raised(KeyError))
                      /\ UNCHANGED language_cache
        /\ UNCHANGED <<now, lang_calls>>
        /\ UNCHANGED <<parse_vars, extract_vars, fetch_vars, fun_vars, db_vars,
                       store_vars, call_vars, life_vars, upsert_vars, limit_vars,
                       api_vars>>

\* The listings an earlier call may have stored.
StoredListings ==
    {FetchLanguages(out).languages : out \in {a \in ListingAnswers : a.kind = "returns_info"}}

\* Two threads are about to call the extractor, whose cache is empty or holds
\* a listing of the video stored at time 0, fresh or expired by now.
InitRace ==
    /\ threads \in [Threads -> {Starting("list"), Starting("clear")}]
    /\ \E e \in {NoEntry} \cup {CacheEntry(l, 0) : l \in StoredListings} :
          language_cache = [v \in VideoIds |-> IF v = RaceVideoId THEN e ELSE NoEntry]
    /\ now \in {0} \cup Times
    /\ lang_calls = <<>>
    /\ ParseIdle /\ ExtractIdle /\ FetchIdle /\ FunIdle /\ DbIdle /\ StoreIdle /\
       CallsIdle /\ LifeIdle /\ UpsertIdle /\ LimitIdle /\ ApiIdle

NextRace ==
    \/ \E t \in Threads : ListStep(t)
    \/ \E t \in Threads : ClearStep(t)
    \/ \E t \in Times : Tick(t)

SpecRace == InitRace /\ [][NextRace]_vars

-----------------------------------------------------------------------------
(* Concurrent requests: get_subtitles on the event loop, extract_subtitles *)
(* in worker threads (src/app/main.py:615-753, src/app/service.py:657-694) *)

\* What the capability answers in this specification: a rate limit, a
\* record without a caption file, and a record with a caption file.
CallOutcomes ==
    { o \in CapabilityOutcomes :
        \/ o.kind = "raises" /\ Contains(o.msg, <<"4","2","9">>)
        \/ o.kind = "returns_info" /\ (o.asset = NoFile \/ Contains(o.asset, <<"H","e","l","l","o"," ","w","o","r","l","d">>)) }

CallJitters == {RETRY_JITTER_MS}

\* Variant of Offload: the call runs on the event loop itself.
RunInline(i) == i

\* "await run_in_threadpool(extractor.extract_subtitles, ...)": the call runs
\* in a worker thread and the event loop is free (src/app/main.py:669-673).
Offload(i) == 0

\* Variant of NewArea: every attempt works in the same directory.
SameArea(fs) == 1

\* tempfile.TemporaryDirectory(dir=...): a directory that did not exist
\* (src/app/service.py:666).
NewArea(fs) == IF fs.dirs = {} THEN 1 ELSE SetMax(fs.dirs) + 1

\* The files of a directory: temp_path.glob("*.vtt") (src/app/service.py:595).
FilesIn(fs, dir) == {f \in fs.files : f.dir = dir}

\* The with statement is left: the directory and its files are removed.
RemoveArea(fs, dir) ==
    [dirs |-> fs.dirs \ {dir}, files |-> {f \in fs.files : f.dir # dir}]

\* The handler of request i runs up to its first await of the thread pool:
\* an invalid URL is answered with 400 (src/app/main.py:615-620), else
\* extract_subtitles is handed to a worker thread.
Receive(i) ==
    LET self == requests[i]
    IN  /\ self.stage = "pending"
        /\ loop = 0
        /\ IF is_valid_youtube_url(self.video_url)
           THEN /\ requests' = [requests EXCEPT ![i].stage = "waiting", ![i].pc = "called"]
                /\ loop' = Offload(i)
           ELSE /\ requests' = [requests EXCEPT ![i].stage = "responded",
                                                ![i].status_code = 400]
                /\ loop' = 0
        /\ UNCHANGED areas
        /\ UNCHANGED <<parse_vars, extract_vars, cache_vars, fetch_vars, fun_vars,
                       db_vars, store_vars, race_vars, life_vars, upsert_vars,
                       limit_vars, api_vars>>

\* The worker thread of request i enters extract_subtitles: the reference is
\* resolved (src/app/service.py:657-659).
Begin(i) ==
    LET self == requests[i]
        vid  == extract_video_id(self.video_url)
    IN  /\ self.stage = "waiting"
        /\ self.pc = "called"
        /\ requests' =
              [requests EXCEPT
                  ![i].video_id = vid,
                  ![i].pc = IF ResolutionFailed(vid) THEN "raised" ELSE "loop",
                  ![i].raised = IF ResolutionFailed(vid)
                                THEN Error("ValueError", InvalidUrlMessage(self.video_url))
                                ELSE NoListingError]
        /\ UNCHANGED <<areas, loop>>
        /\ UNCHANGED <<parse_vars, extract_vars, cache_vars, fetch_vars, fun_vars,
                       db_vars, store_vars, race_vars, life_vars, upsert_vars,
                       limit_vars, api_vars>>

\* An iteration of the for loop begins: the with statement creates the
\* directory of this attempt (src/app/service.py:663-666).
EnterAttemptOf(i) ==
    LET self == requests[i]
        dir  == NewArea(areas)
    IN  /\ self.pc = "loop"
        /\ requests' = [requests EXCEPT ![i].pc = "attempt", ![i].dir = dir]
        /\ areas' = [areas EXCEPT !.dirs = areas.dirs \cup {dir}]
        /\ UNCHANGED loop
        /\ UNCHANGED <<parse_vars, extract_vars, cache_vars, fetch_vars, fun_vars,
                       db_vars, store_vars, race_vars, life_vars, upsert_vars,
                       limit_vars, api_vars>>

\* ydl.extract_info(video_url, download=True) answers `out`: a caption file
\* is written to the directory of the attempt, or none is
\* (src/app/service.py:587-590, outtmpl at 330).
Download(i, out) ==
    LET self == requests[i]
    IN  /\ self.pc = "attempt"
        /\ requests' = [requests EXCEPT ![i].pc = "downloaded",
                                        ![i].invocations = self.invocations + 1,
                                        ![i].answers = Append(self.answers, out)]
        /\ areas' =
              IF out.kind = "returns_info" /\ out.asset # NoFile
              THEN [areas EXCEPT !.files = areas.files \cup
                        {[dir |-> self.dir, by |-> i, asset |-> out.asset]}]
              ELSE areas
        /\ UNCHANGED loop
        /\ UNCHANGED <<parse_vars, extract_vars, cache_vars, fetch_vars, fun_vars,
                       db_vars, store_vars, race_vars, life_vars, upsert_vars,
                       limit_vars, api_vars>>

\* The except clause, or the return, after an attempt that came to r
\* (src/app/service.py:670-686).
AfterAttempt(self, r) ==
    IF r.ok
    THEN [self EXCEPT !.pc = "returned", !.result = r.value]
    ELSE IF ShouldRetry(self.attempt, r.error)
         THEN [self EXCEPT !.pc = "sleep", !.last_error = RecordError(self.last_error, r.error)]
         ELSE [self EXCEPT !.pc = "raised",
                           !.last_error = RecordError(self.last_error, r.error),
                           !.raised = RecordError(self.last_error, r.error)]

\* The file f was read, if one was expected, and the attempt came to r: the
\* call returns, sleeps or raises, and its directory is gone.
Conclude(i, f, r) ==
    requests' =
        [requests EXCEPT
            ![i] = [AfterAttempt(requests[i], r) EXCEPT
                       !.reads = IF requests[i].answers[Len(requests[i].answers)].kind
                                    = "returns_info"
                                 THEN Append(requests[i].reads, f.by)
                                 ELSE requests[i].reads,
                       !.dir = 0]]

\* What the attempt makes of the answer `out` of the capability when the
\* file f is the first one that glob finds.
Seen(out, f) ==
    IF out.kind = "returns_info" THEN [kind |-> "returns_info", asset |-> f.asset] ELSE out

\* The rest of _extract_subtitles_once: the first *.vtt file of the directory
\* is read; then the with statement removes the directory
\* (src/app/service.py:593-630, 666-670).
ReadAsset(i) ==
    /\ requests[i].pc = "downloaded"
    /\ \E f \in IF FilesIn(areas, requests[i].dir) = {}
               THEN {[dir |-> requests[i].dir, by |-> 0, asset |-> NoFile]}
               ELSE FilesIn(areas, requests[i].dir) :
          Conclude(i, f,
                   extract_subtitles_once(
                       requests[i].video_id, requests[i].lang, requests[i].output_format,
                       Seen(requests[i].answers[Len(requests[i].answers)], f)))
    /\ areas' = RemoveArea(areas, requests[i].dir)
    /\ UNCHANGED loop
    /\ UNCHANGED <<parse_vars, extract_vars, cache_vars, fetch_vars, fun_vars, db_vars,
                   store_vars, race_vars, life_vars, upsert_vars, limit_vars, api_vars>>

\* time.sleep(delay) returns in the worker thread and the for loop goes on
\* (src/app/service.py:680-683).
SleepOf(i, jitter) ==
    LET self == requests[i]
    IN  /\ self.pc = "sleep"
        /\ requests' =
              [requests EXCEPT
                  ![i].sleeps = Append(self.sleeps, calculate_retry_delay(self.attempt, jitter)),
                  ![i].attempt = self.attempt + 1,
                  ![i].pc = IF self.attempt + 1 < MAX_RETRIES THEN "loop" ELSE "raised",
                  ![i].raised = IF self.attempt + 1 < MAX_RETRIES THEN self.raised
                                ELSE self.last_error]
        /\ UNCHANGED <<areas, loop>>
        /\ UNCHANGED <<parse_vars, extract_vars, cache_vars, fetch_vars, fun_vars,
                       db_vars, store_vars, race_vars, life_vars, upsert_vars,
                       limit_vars, api_vars>>

\* The task of request i is cancelled while it awaits the thread pool. The
\* worker thread is not told: run_in_threadpool waits for it to finish.
Cancel(i) ==
    LET self == requests[i]
    IN  /\ self.stage = "waiting"
        /\ ~self.cancel.cancelled
        /\ self.pc \notin {"returned", "raised"}
        /\ requests' = [requests EXCEPT
                           ![i].cancel = [cancelled |-> TRUE,
                                          asleep |-> self.pc = "sleep",
                                          invocations |-> self.invocations]]
        /\ UNCHANGED <<areas, loop>>
        /\ UNCHANGED <<parse_vars, extract_vars, cache_vars, fetch_vars, fun_vars,
                       db_vars, store_vars, race_vars, life_vars, upsert_vars,
                       limit_vars, api_vars>>

\* The worker thread is done and the handler goes on, on the event loop: 200
\* for a result, 404 for a ValueError, the global handler's 500 for what is
\* re-raised (src/app/main.py:675-753); a cancelled task ends instead.
Respond(i) ==
    LET self == requests[i]
    IN  /\ self.stage = "waiting"
        /\ self.pc \in {"returned", "raised"}
        /\ loop \in {0, i}
        /\ requests' =
              [requests EXCEPT
                  ![i].stage = IF self.cancel.cancelled THEN "cancelled" ELSE "responded",
                  ![i].status_code =
                      IF self.cancel.cancelled THEN 0
                      ELSE IF self.pc = "returned" THEN 200
                      ELSE IF self.raised.type = "ValueError" THEN 404
                      ELSE 500]
        /\ loop' = 0
        /\ UNCHANGED areas
        /\ UNCHANGED <<parse_vars, extract_vars, cache_vars, fetch_vars, fun_vars,
                       db_vars, store_vars, race_vars, life_vars, upsert_vars,
                       limit_vars, api_vars>>

\* Request 1 asks for the captions of a video; so does request 2, or it
\* names no video.
InitCalls ==
    /\ \E url \in { <<"h","t","t","p","s",":","/","/","y","o","u","t","u",".","b","e","/","d","Q","w","4","w","9","W","g","X","c","Q">>, <<"n","o","t","-","a","-","u","r","l">> } :
          requests = [i \in Requests |->
                         Pending(IF i = 1 THEN <<"h","t","t","p","s",":","/","/","y","o","u","t","u",".","b","e","/","d","Q","w","4","w","9","W","g","X","c","Q">> ELSE url,
                                 <<"e","n">>, "vtt")]
    /\ areas = [dirs |-> {}, files |-> {}]
    /\ loop = 0
    /\ ParseIdle /\ ExtractIdle /\ CacheIdle /\ FetchIdle /\ FunIdle /\ DbIdle /\
       StoreIdle /\ RaceIdle /\ LifeIdle /\ UpsertIdle /\ LimitIdle /\ ApiIdle

\* The steps of one request.
StepOf(i) ==
    \/ Receive(i)
    \/ Begin(i)
    \/ EnterAttemptOf(i)
    \/ \E out \in CallOutcomes : Download(i, out)
    \/ ReadAsset(i)
    \/ \E jitter \in CallJitters : SleepOf(i, jitter)
    \/ Respond(i)

\* The client of request 1 may go away while its request is served.
NextCalls == (\E i \in Requests : StepOf(i)) \/ Cancel(1)

SpecCalls == InitCalls /\ [][NextCalls]_vars

\* The event loop and the worker thread of request 2 are scheduled fairly;
\* nothing is assumed of request 1, whose download or sleep may last for ever.
\* The fairness of ReadAsset(2) is written out, with the state predicate that
\* ENABLED <<ReadAsset(2)>>_vars amounts to: the thread is at that statement.
SpecCallsFair ==
    /\ InitCalls
    /\ [][NextCalls]_vars
    /\ WF_vars(Receive(2))
    /\ WF_vars(Begin(2))
    /\ WF_vars(EnterAttemptOf(2))
    /\ WF_vars(\E out \in CallOutcomes : Download(2, out))
    /\ ([]<>(requests[2].pc # "downloaded") \/ []<><<ReadAsset(2)>>_vars)
    /\ WF_vars(\E jitter \in CallJitters : SleepOf(2, jitter))
    /\ WF_vars(Respond(2))

-----------------------------------------------------------------------------
(* DatabaseLifecycle (src/app/database.py:303-405)                         *)

\* The fields of the Settings class (src/app/config.py:44-85).
SettingsFields ==
    {"host", "port", "log_level", "ytdlp_sleep_seconds", "ytdlp_impersonate_target",
     "ytdlp_temp_dir", "ytdlp_request_timeout", "rate_limit_enabled",
     "rate_limit_per_minute", "enable_security_headers", "cache_enabled", "cache_ttl",
     "cache_maxsize", "redis_url", "database_path"}

\* startup(), up to its second await: init_db() makes the engine through the
\* engine property and creates the tables (src/app/database.py:324-328, 76-92,
\* 106-115).
StartupInitDb ==
    /\ lifecycle \in {"constructed", "closed"}
    /\ engine' = "open"
    /\ tables' = TRUE
    /\ lifecycle' = "initialized"
    /\ UNCHANGED <<cleanup_task, shutdown_event>>
    /\ UNCHANGED <<parse_vars, extract_vars, cache_vars, fetch_vars, fun_vars, db_vars,
                   store_vars, race_vars, call_vars, upsert_vars, limit_vars, api_vars>>

\* start_background_cleanup(), as awaited by startup(): the event is made,
\* then settings.cache_poll_interval is read (src/app/database.py:344-346).
\* Settings has no such field, the attribute access raises AttributeError and
\* startup() raises it: cleanup_loop (348-379) is not defined yet and
\* create_task (382) is not reached.
StartBackgroundCleanup ==
    /\ lifecycle = "initialized"
    /\ shutdown_event' = "clear"
    /\ IF "cache_poll_interval" \in SettingsFields
       THEN cleanup_task' = "running" /\ lifecycle' = "started"
       ELSE cleanup_task' = cleanup_task /\ lifecycle' = "startup_raised"
    /\ UNCHANGED <<engine, tables>>
    /\ UNCHANGED <<parse_vars, extract_vars, cache_vars, fetch_vars, fun_vars, db_vars,
                   store_vars, race_vars, call_vars, upsert_vars, limit_vars, api_vars>>

\* shutdown(), up to its second await: stop_background_cleanup()
\* (src/app/database.py:332-335, 388-401). With a task it sets the event and
\* waits for the task; without one it does nothing, the event stays.
StopBackgroundCleanup ==
    /\ lifecycle \in {"started", "startup_raised"}
    /\ IF cleanup_task # "None"
       THEN cleanup_task' = "None" /\ shutdown_event' = "None"
       ELSE UNCHANGED <<cleanup_task, shutdown_event>>
    /\ lifecycle' = "stopping"
    /\ UNCHANGED <<engine, tables>>
    /\ UNCHANGED <<parse_vars, extract_vars, cache_vars, fetch_vars, fun_vars, db_vars,
                   store_vars, race_vars, call_vars, upsert_vars, limit_vars, api_vars>>

\* The rest of shutdown(): DatabaseEngine.close() (src/app/database.py:336,
\* 117-123). The database file keeps its tables and rows.
Close ==
    /\ lifecycle = "stopping"
    /\ engine' = "None"
    /\ lifecycle' = "closed"
    /\ UNCHANGED <<tables, cleanup_task, shutdown_event>>
    /\ UNCHANGED <<parse_vars, extract_vars, cache_vars, fetch_vars, fun_vars, db_vars,
                   store_vars, race_vars, call_vars, upsert_vars, limit_vars, api_vars>>

\* A set_cached_subtitle call between init_db and close: session_factory takes
\* the engine from the engine property, which makes one if there is none
\* (src/app/database.py:76-104, 197-252).
SetWhileUp ==
    /\ lifecycle \in {"initialized", "started", "startup_raised", "stopping"}
    /\ \E key \in RowKeys, ttl_hours \in TtlHours : rows' = Upsert(key, ttl_hours)
    /\ engine' = "open"
    /\ UNCHANGED <<utc, deleted_counts, tables, cleanup_task, shutdown_event, lifecycle>>
    /\ UNCHANGED <<parse_vars, extract_vars, cache_vars, fetch_vars, fun_vars,
                   store_vars, race_vars, call_vars, upsert_vars, limit_vars, api_vars>>

NextLife ==
    StartupInitDb \/ StartBackgroundCleanup \/ StopBackgroundCleanup \/ Close
    \/ SetWhileUp \/ TickUtc

SpecLife == Init /\ [][NextLife]_vars

-----------------------------------------------------------------------------
(* Two set_cached_subtitle calls at once (src/app/database.py:197-252)     *)

\* The payloads the two calls bring, and the triples they write to.
WriterPayloads == [w \in Writers |-> IF w = 1 THEN "first" ELSE "second"]

WriterKeys == {"a/en/json", "b/en/json"}

\* The ids of the rows of a triple: at most one, by the unique constraint
\* uq_subtitle_cache_lookup (src/app/models.py:64-66).
IdsOf(key) == {r.id : r \in {x \in table : x.key = key}}

\* The autoincrement primary key of the next inserted row.
NextId == IF table = {} THEN 1 ELSE SetMax({r.id : r \in table}) + 1

\* The calls start: each has its arguments, and its own session
\* (src/app/database.py:220). The table is empty or holds rows of earlier calls.
InitUpsert ==
    /\ \E held \in SUBSET WriterKeys :
          table = {[id |-> IF k = "a/en/json" THEN 1 ELSE 2, key |-> k, subtitle_data |-> "old"] : k \in held}
    /\ \E keys \in [Writers -> WriterKeys] :
          writers = [w \in Writers |->
                        [pc |-> "select", key |-> keys[w],
                         subtitle_data |-> WriterPayloads[w], existing |-> 0]]
    /\ ParseIdle /\ ExtractIdle /\ CacheIdle /\ FetchIdle /\ FunIdle /\ DbIdle /\
       StoreIdle /\ RaceIdle /\ CallsIdle /\ LifeIdle /\ LimitIdle /\ ApiIdle

\* "result = await session.execute(select(...)); existing = result.scalars().first()"
\* (src/app/database.py:222-229): the id of the row of the triple, 0 for None.
SelectExisting(w) ==
    /\ writers[w].pc = "select"
    /\ writers' = [writers EXCEPT ![w].pc = "commit",
                                  ![w].existing = IF IdsOf(writers[w].key) = {} THEN 0
                                                  ELSE SetMin(IdsOf(writers[w].key))]
    /\ UNCHANGED table
    /\ UNCHANGED <<parse_vars, extract_vars, cache_vars, fetch_vars, fun_vars, db_vars,
                   store_vars, race_vars, call_vars, life_vars, limit_vars, api_vars>>

\* "session.add(entry); await session.commit()" (src/app/database.py:241-251):
\* the INSERT is refused with IntegrityError when the table holds a row of the
\* triple by now (uq_subtitle_cache_lookup, src/app/models.py:64-66).
InsertRow(w) ==
    IF IdsOf(writers[w].key) # {}
    THEN /\ writers' = [writers EXCEPT ![w].pc = "IntegrityError"]
         /\ UNCHANGED table
    ELSE /\ table' = table \cup {[id |-> NextId, key |-> writers[w].key,
                                  subtitle_data |-> writers[w].subtitle_data]}
         /\ writers' = [writers EXCEPT ![w].pc = "returned"]

\* The rest of the call: the row found is updated and committed
\* (src/app/database.py:233-238), or a new one is inserted (240-252).
CommitRow(w) ==
    /\ writers[w].pc = "commit"
    /\ IF writers[w].existing # 0
       THEN /\ table' = {IF r.id = writers[w].existing
                         THEN [r EXCEPT !.subtitle_data = writers[w].subtitle_data]
                         ELSE r : r \in table}
            /\ writers' = [writers EXCEPT ![w].pc = "returned"]
       ELSE InsertRow(w)
    /\ UNCHANGED <<parse_vars, extract_vars, cache_vars, fetch_vars, fun_vars, db_vars,
                   store_vars, race_vars, call_vars, life_vars, limit_vars, api_vars>>

NextUpsert == \E w \in Writers : SelectExisting(w) \/ CommitRow(w)

SpecUpsert == InitUpsert /\ [][NextUpsert]_vars

-----------------------------------------------------------------------------
(* _check_rate_limit (src/app/main.py:81-119)                              *)

\* The time window of the limit, in seconds.
window_seconds == 2

\* The number of tracked IPs beyond which inactive ones are dropped.
MAX_TRACKED_IPS == 1

\* The calls made in one run, and the seconds the run lasts.
MaxChecks == 4

MaxWall == 4

ClientIps == {"10.0.0.1", "10.0.0.2"}

\* The limits the handlers pass (settings.rate_limit_per_minute).
Limits == {1, 2}

\* "[t for t in _rate_limit_tracker[ip] if now - t < window_seconds]"
RECURSIVE CleanOld(_, _)
CleanOld(stamps, t_now) ==
    IF stamps = <<>> THEN <<>>
    ELSE (IF t_now - Head(stamps) < window_seconds THEN <<Head(stamps)>> ELSE <<>>)
         \o CleanOld(Tail(stamps), t_now)

\* _rate_limit_tracker[ip] of a defaultdict(list): the timestamps of the ip,
\* none if it is not tracked.
StampsOf(tracker, ip) ==
    IF \E k \in 1..Len(tracker) : tracker[k].ip = ip
    THEN tracker[CHOOSE k \in 1..Len(tracker) : tracker[k].ip = ip].stamps
    ELSE <<>>

\* "_rate_limit_tracker[ip] = stamps": the entry keeps its place, a new one
\* goes to the end.
WithStamps(tracker, ip, stamps) ==
    IF \E k \in 1..Len(tracker) : tracker[k].ip = ip
    THEN [k \in 1..Len(tracker) |->
             IF tracker[k].ip = ip THEN [ip |-> ip, stamps |-> stamps] ELSE tracker[k]]
    ELSE Append(tracker, [ip |-> ip, stamps |-> stamps])

\* Variant of OverLimit: the limit is reached one request later.
OverLimitByOne(stamps, limit) == Len(stamps) > limit

\* "if len(_rate_limit_tracker[ip]) >= max_requests: return False"
OverLimit(stamps, limit) == Len(stamps) >= limit

\* The tracker without its first n entries whose timestamps are all older
\* than the window: "for inactive_ip in inactive_ips[:n]: del ..."
RECURSIVE DropInactive(_, _, _)
DropInactive(tracker, t_now, n) ==
    IF tracker = <<>> THEN <<>>
    ELSE IF n > 0 /\ \A k \in 1..Len(Head(tracker).stamps) :
                        t_now - Head(tracker).stamps[k] > window_seconds
    THEN DropInactive(Tail(tracker), t_now, n - 1)
    ELSE <<Head(tracker)>> \o DropInactive(Tail(tracker), t_now, n)

\* The body of _check_rate_limit under the lock: <<tracker after, allowed>>.
CheckBody(tracker, ip, limit, t_now) ==
    LET cleaned == WithStamps(tracker, ip, CleanOld(StampsOf(tracker, ip), t_now))
        added == WithStamps(cleaned, ip, Append(StampsOf(cleaned, ip), t_now))
    IN  IF OverLimit(StampsOf(cleaned, ip), limit) THEN <<cleaned, FALSE>>
        ELSE IF Len(added) > MAX_TRACKED_IPS
        THEN <<DropInactive(added, t_now, SetMax({1, MAX_TRACKED_IPS \div 10})), TRUE>>
        ELSE <<added, TRUE>>

\* The service is configured with one of the limits.
InitLimit ==
    /\ max_requests \in Limits
    /\ rate_limit_tracker = <<>>
    /\ rate_limit_lock = 0
    /\ callers = [c \in Callers |-> NoCall]
    /\ wall = 0
    /\ verdicts = <<>>
    /\ ParseIdle /\ ExtractIdle /\ CacheIdle /\ FetchIdle /\ FunIdle /\ DbIdle /\
       StoreIdle /\ RaceIdle /\ CallsIdle /\ LifeIdle /\ UpsertIdle /\ ApiIdle

\* A handler calls _check_rate_limit(client_ip, settings.rate_limit_per_minute)
\* (src/app/main.py:605-612, 846-855).
EnterCheck(c) ==
    /\ callers[c].pc = "out"
    /\ Len(verdicts) + Cardinality({d \in Callers : callers[d].pc # "out"}) < MaxChecks
    /\ \E ip \in ClientIps : callers' = [callers EXCEPT ![c] = [pc |-> "waiting", ip |-> ip]]
    /\ UNCHANGED <<rate_limit_tracker, rate_limit_lock, wall, verdicts, max_requests>>
    /\ UNCHANGED <<parse_vars, extract_vars, cache_vars, fetch_vars, fun_vars, db_vars,
                   store_vars, race_vars, call_vars, life_vars, upsert_vars, api_vars>>

\* "async with _rate_limit_lock": the lock is taken when it is free.
AcquireLock(c) ==
    /\ callers[c].pc = "waiting"
    /\ rate_limit_lock = 0
    /\ rate_limit_lock' = c
    /\ callers' = [callers EXCEPT ![c].pc = "inside"]
    /\ UNCHANGED <<rate_limit_tracker, wall, verdicts, max_requests>>
    /\ UNCHANGED <<parse_vars, extract_vars, cache_vars, fetch_vars, fun_vars, db_vars,
                   store_vars, race_vars, call_vars, life_vars, upsert_vars, api_vars>>

\* The body, which has no await, and the release of the lock
\* (src/app/main.py:97-119).
CheckRateLimit(c) ==
    /\ callers[c].pc = "inside"
    /\ rate_limit_tracker' = CheckBody(rate_limit_tracker, callers[c].ip, max_requests, wall)[1]
    /\ verdicts' = Append(verdicts,
                          [ip |-> callers[c].ip, at |-> wall,
                           allowed |-> CheckBody(rate_limit_tracker, callers[c].ip,
                                                 max_requests, wall)[2]])
    /\ rate_limit_lock' = 0
    /\ callers' = [callers EXCEPT ![c] = NoCall]
    /\ UNCHANGED <<wall, max_requests>>
    /\ UNCHANGED <<parse_vars, extract_vars, cache_vars, fetch_vars, fun_vars, db_vars,
                   store_vars, race_vars, call_vars, life_vars, upsert_vars, api_vars>>

\* A second passes.
TickWall ==
    /\ wall < MaxWall
    /\ wall' = wall + 1
    /\ UNCHANGED <<rate_limit_tracker, rate_limit_lock, callers, verdicts, max_requests>>
    /\ UNCHANGED <<parse_vars, extract_vars, cache_vars, fetch_vars, fun_vars, db_vars,
                   store_vars, race_vars, call_vars, life_vars, upsert_vars, api_vars>>

NextLimit ==
    \/ \E c \in Callers : EnterCheck(c) \/ AcquireLock(c) \/ CheckRateLimit(c)
    \/ TickWall

SpecLimit == InitLimit /\ [][NextLimit]_vars

-----------------------------------------------------------------------------
(* GET /api/v1/subtitles/languages (src/app/main.py:756-813)               *)

\* get_extractor(): "return SubtitleExtractor()", a new extractor, whose
\* __init__ makes an empty _language_cache (src/app/service.py:805-811, 278).
get_extractor == [v \in VideoIds |-> NoEntry]

\* list_languages: a URL that is not valid is answered with 400 before an
\* extractor is made; for a valid one the handler gets an extractor and calls
\* its list_available_languages in the thread pool (src/app/main.py:792-813).
\* language_cache is the cache of the extractor of the latest request.
ListLanguagesRoute(url, out, d) ==
    /\ Len(lang_calls) < MaxCalls
    /\ is_valid_youtube_url(url)
    /\ Apply(list_available_languages(get_extractor, now, url, out, d))

NextLangApi ==
    \/ \E url \in ListingUrls, out \in ListingAnswers, d \in FetchDurations :
          ListLanguagesRoute(url, out, d)
    \/ \E t \in Times : Tick(t)

SpecLangApi == Init /\ [][NextLangApi]_vars

-----------------------------------------------------------------------------
(* The two cache tiers behind GET /api/v1/subtitles and                     *)
(* POST /api/v1/subtitles/batch (src/app/main.py:535-753, 816-960)          *)
(* All requests of a run ask for one (video_url, lang, format): one key of  *)
(* the in-memory tier, one row of the persistent tier.                      *)

\* The requests served in one run, and the seconds the run lasts.
MaxRequests == 3

MaxClock == 7200

\* The values of settings.cache_ttl (seconds) and the formats.
CacheTtls == {1800, 3600, 5400}

Endpoints == {"single", "batch"}

\* What the tiers hold and the endpoints answer. A dict with the fields of
\* the format: {"video_id", "vtt"} for vtt, the fields of SubtitleTextResponse
\* for text and of SubtitleResponse for json; a response model and its
\* model_dump() are the same dict here.
DictOf(fmt) == "dict:" \o fmt

\* The sanitized captions string that extract_subtitles returns for vtt.
VttString == "str:WEBVTT"

\* json.dumps(data) and model_dump_json(): the JSON text of the dict.
JsonDumps(fmt) == "json:" \o fmt

\* json.loads(text) fails (JSONDecodeError) on text that is not JSON, and
\* model_validate_json(text) fails (ValidationError) on it.
IsJson(text) == text \in {JsonDumps(fmt) : fmt \in OutputFormats}

\* What the single endpoint writes to the persistent tier: the captions string
\* itself for vtt, model_dump_json() for text and json
\* (src/app/main.py:696-698, 719-721, 742-744).
SingleSubtitleData(fmt) == IF fmt = "vtt" THEN VttString ELSE JsonDumps(fmt)

\* What the batch endpoint writes to the persistent tier: json.dumps(data) in
\* every format (src/app/main.py:946-948).
BatchSubtitleData(fmt) == JsonDumps(fmt)

\* The body of an uncached answer: the single endpoint answers vtt with the
\* captions string and text/json with the response model
\* (src/app/main.py:699-702, 722, 745); a batch item carries the dict
\* (src/app/main.py:950-954).
UncachedBody(endpoint, fmt) ==
    IF endpoint = "single" /\ fmt = "vtt" THEN VttString ELSE DictOf(fmt)

\* The answer of the endpoint to a row found in the persistent tier
\* (src/app/main.py:626-641, 877-892): <<success, body>>.
AnswerFromRow(endpoint, fmt, subtitle_data) ==
    IF endpoint = "single" /\ fmt = "vtt" THEN <<TRUE, subtitle_data>>
    ELSE IF IsJson(subtitle_data) THEN <<TRUE, DictOf(fmt)>>
    ELSE <<FALSE, "">>

\* The answer of the endpoint to an item found in the in-memory tier
\* (src/app/main.py:644-661, 895-905).
AnswerFromItem(endpoint, fmt, data) ==
    IF endpoint = "single" /\ fmt = "vtt" THEN <<TRUE, VttString>> ELSE <<TRUE, data>>

\* "ttl_hours = settings.cache_ttl // 3600 or None", in hours; 0 for None
\* (src/app/main.py:695, 718, 741, 945).
TtlHoursOf(seconds) == seconds \div 3600

\* expires_at of the row written now
\* (src/app/database.py:231, src/app/models.py:26-35).
RowExpiry(ttl_hours) ==
    IF ttl_hours = 0 THEN Never ELSE ExpiresAt(clock + ttl_hours * 3600)

\* get_cached_subtitle serves the row: there is one and it has not expired
\* (src/app/database.py:185-195).
RowServed(row, t) == row.held /\ ~(row.expires_at.set /\ row.expires_at.at < t)

\* cache.get serves the item: there is one and its time has not come
\* (src/app/cache.py:107-130, cachetools.TTLCache).
ItemServed(item, t) == item.held /\ t < item.expires

\* A request that is over: its endpoint, how it was served ("db_hit",
\* "memory_hit", "miss" or "failed"), whether it succeeded and with what body,
\* the endpoint that had written the cached entry it was served from, the
\* tiers it wrote to, and what the tiers held when it ended.
Answer(h, outcome, ok, body, by) ==
    [endpoint |-> handlers[h].endpoint, outcome |-> outcome, ok |-> ok, body |-> body,
     by |-> by, wrote |-> handlers[h].wrote,
     memory_after |-> IF ItemServed(memory', clock) THEN memory'.data ELSE "",
     persistent_after |-> IF RowServed(persistent', clock) THEN persistent'.subtitle_data
                          ELSE ""]

\* The request of handler h is over.
Finished(h, outcome, ok, body, by) ==
    /\ served' = Append(served, Answer(h, outcome, ok, body, by))
    /\ handlers' = [handlers EXCEPT ![h] = NoHandler]

\* The service runs with one cache_ttl; the requests of the run ask for one
\* format.
InitApi ==
    /\ settings \in [cache_ttl : CacheTtls, format : OutputFormats]
    /\ memory = NoItem
    /\ persistent = NoRow
    /\ clock = 0
    /\ handlers = [h \in Handlers |-> NoHandler]
    /\ served = <<>>
    /\ ParseIdle /\ ExtractIdle /\ CacheIdle /\ FetchIdle /\ FunIdle /\ DbIdle /\
       StoreIdle /\ RaceIdle /\ CallsIdle /\ LifeIdle /\ UpsertIdle /\ LimitIdle

\* A request arrives at one of the endpoints; its URL is valid and the rate
\* limit lets it pass (src/app/main.py:603-620, 843-873).
Arrive(h) ==
    /\ handlers[h].pc = "idle"
    /\ Len(served) + Cardinality({g \in Handlers : handlers[g].pc # "idle"}) < MaxRequests
    /\ \E endpoint \in Endpoints :
          handlers' = [handlers EXCEPT ![h] = [pc |-> "db_get", endpoint |-> endpoint,
                                               existing |-> FALSE, wrote |-> {}]]
    /\ UNCHANGED <<settings, memory, persistent, clock, served>>
    /\ UNCHANGED <<parse_vars, extract_vars, cache_vars, fetch_vars, fun_vars, db_vars,
                   store_vars, race_vars, call_vars, life_vars, upsert_vars, limit_vars>>

\* "db_entry = await db_engine.get_cached_subtitle(...)": an expired row is
\* deleted; a row found is answered from (src/app/main.py:622-641, 874-892;
\* src/app/database.py:162-195). In the batch endpoint a failure to load the
\* row is caught and makes the item fail (956-962).
DbGet(h) ==
    /\ handlers[h].pc = "db_get"
    /\ UNCHANGED <<settings, memory, clock>>
    /\ IF RowServed(persistent, clock)
       THEN /\ UNCHANGED persistent
            /\ Finished(h, "db_hit",
                        AnswerFromRow(handlers[h].endpoint, settings.format,
                                      persistent.subtitle_data)[1],
                        AnswerFromRow(handlers[h].endpoint, settings.format,
                                      persistent.subtitle_data)[2],
                        persistent.by)
       ELSE /\ persistent' = NoRow
            /\ handlers' = [handlers EXCEPT ![h].pc = "memory_get"]
            /\ UNCHANGED served
    /\ UNCHANGED <<parse_vars, extract_vars, cache_vars, fetch_vars, fun_vars, db_vars,
                   store_vars, race_vars, call_vars, life_vars, upsert_vars, limit_vars>>

\* "cached_data = await cache.get(...)" (src/app/main.py:643-661, 894-905).
MemoryGet(h) ==
    /\ handlers[h].pc = "memory_get"
    /\ UNCHANGED <<settings, persistent, clock>>
    /\ IF ItemServed(memory, clock)
       THEN /\ UNCHANGED memory
            /\ Finished(h, "memory_hit",
                        AnswerFromItem(handlers[h].endpoint, settings.format, memory.data)[1],
                        AnswerFromItem(handlers[h].endpoint, settings.format, memory.data)[2],
                        memory.by)
       ELSE /\ UNCHANGED memory
            /\ handlers' = [handlers EXCEPT ![h].pc = "extract"]
            /\ UNCHANGED served
    /\ UNCHANGED <<parse_vars, extract_vars, cache_vars, fetch_vars, fun_vars, db_vars,
                   store_vars, race_vars, call_vars, life_vars, upsert_vars, limit_vars>>

\* "await run_in_threadpool(extractor.extract_subtitles, ...)": it returns, or
\* raises and the request fails (src/app/main.py:664-673, 747-753, 907-912,
\* 956-962).
Extract(h) ==
    /\ handlers[h].pc = "extract"
    /\ UNCHANGED <<settings, memory, persistent, clock>>
    /\ \E ok \in BOOLEAN :
          IF ok
          THEN handlers' = [handlers EXCEPT ![h].pc = "memory_set"] /\ UNCHANGED served
          ELSE Finished(h, "failed", FALSE, "", "")
    /\ UNCHANGED <<parse_vars, extract_vars, cache_vars, fetch_vars, fun_vars, db_vars,
                   store_vars, race_vars, call_vars, life_vars, upsert_vars, limit_vars>>

\* "await cache.set(video_url, lang, format, data)": the dict of the format
\* (src/app/main.py:693, 716, 739, 942; src/app/cache.py:132-150).
MemorySet(h) ==
    /\ handlers[h].pc = "memory_set"
    /\ memory' = [held |-> TRUE, data |-> DictOf(settings.format),
                  expires |-> clock + settings.cache_ttl, by |-> handlers[h].endpoint]
    /\ handlers' = [handlers EXCEPT ![h].pc = "db_select",
                                    ![h].wrote = handlers[h].wrote \cup {"memory"}]
    /\ UNCHANGED <<settings, persistent, clock, served>>
    /\ UNCHANGED <<parse_vars, extract_vars, cache_vars, fetch_vars, fun_vars, db_vars,
                   store_vars, race_vars, call_vars, life_vars, upsert_vars, limit_vars>>

\* set_cached_subtitle, its select (src/app/database.py:220-229).
DbSelect(h) ==
    /\ handlers[h].pc = "db_select"
    /\ handlers' = [handlers EXCEPT ![h].pc = "db_commit", ![h].existing = persistent.held]
    /\ UNCHANGED <<settings, memory, persistent, clock, served>>
    /\ UNCHANGED <<parse_vars, extract_vars, cache_vars, fetch_vars, fun_vars, db_vars,
                   store_vars, race_vars, call_vars, life_vars, upsert_vars, limit_vars>>

\* The row the endpoint of handler h writes now.
RowOf(h) ==
    [held |-> TRUE,
     subtitle_data |-> IF handlers[h].endpoint = "single"
                       THEN SingleSubtitleData(settings.format)
                       ELSE BatchSubtitleData(settings.format),
     expires_at |-> RowExpiry(TtlHoursOf(settings.cache_ttl)),
     written_at |-> clock,
     by |-> handlers[h].endpoint]

\* set_cached_subtitle, the rest: the row found is updated, or a row is
\* inserted, which the unique constraint refuses when there is one by now
\* (src/app/database.py:231-252); then the handler answers
\* (src/app/main.py:699-702, 722, 745, 950-954). IntegrityError fails the
\* request of the single endpoint and the item of the batch endpoint.
DbCommit(h) ==
    /\ handlers[h].pc = "db_commit"
    /\ UNCHANGED <<settings, memory, clock>>
    /\ IF ~handlers[h].existing /\ persistent.held
       THEN /\ UNCHANGED persistent
            /\ Finished(h, "failed", FALSE, "", "")
       ELSE /\ persistent' = RowOf(h)
            /\ served' = Append(served,
                                [Answer(h, "miss", TRUE,
                                        UncachedBody(handlers[h].endpoint, settings.format), "")
                                 EXCEPT !.wrote = handlers[h].wrote \cup {"persistent"}])
            /\ handlers' = [handlers EXCEPT ![h] = NoHandler]
    /\ UNCHANGED <<parse_vars, extract_vars, cache_vars, fetch_vars, fun_vars, db_vars,
                   store_vars, race_vars, call_vars, life_vars, upsert_vars, limit_vars>>

\* Half an hour passes between requests.
TickClock ==
    /\ clock < MaxClock
    /\ \A h \in Handlers : handlers[h].pc = "idle"
    /\ clock' = clock + 1800
    /\ UNCHANGED <<settings, memory, persistent, handlers, served>>
    /\ UNCHANGED <<parse_vars, extract_vars, cache_vars, fetch_vars, fun_vars, db_vars,
                   store_vars, race_vars, call_vars, life_vars, upsert_vars, limit_vars>>

NextApi ==
    \/ \E h \in Handlers :
          \/ Arrive(h) \/ DbGet(h) \/ MemoryGet(h) \/ Extract(h)
          \/ MemorySet(h) \/ DbSelect(h) \/ DbCommit(h)
    \/ TickClock

SpecApi == InitApi /\ [][NextApi]_vars

-----------------------------------------------------------------------------
(* Properties of extract_subtitles (specification Spec)                    *)

HTTP_429 == <<"H","T","T","P"," ","E","r","r","o","r"," ","4","2","9",":"," ","T","o","o"," ","M","a","n","y"," ","R","e","q","u","e","s","t","s">>

VIDEO_UNAVAILABLE == <<"V","i","d","e","o"," ","u","n","a","v","a","i","l","a","b","l","e">>

\* The attempts of the running call that ended in an exception.
FailedAttempts == {k \in 1..Len(outcomes) : outcomes[k].type # "ok"}

\* Attempts 1 and 2 of the running call failed with the 429 error.
TwoRateLimits ==
    /\ Len(outcomes) >= 2
    /\ outcomes[1].type = "DownloadError" /\ outcomes[1].msg = HTTP_429
    /\ outcomes[2].type = "DownloadError" /\ outcomes[2].msg = HTTP_429

\* C1: one extract_subtitles call invokes the capability at most MAX_RETRIES
\* times and sleeps exactly once between two consecutive attempts: a sleep is
\* always followed by another attempt, so a finished call that made n >= 1
\* attempts has slept n - 1 times.  When attempts 1 and 2 fail with the 429
\* error the call goes on to attempt 3, and if that one succeeds the call
\* returns after exactly 3 invocations and 2 sleeps.
C1_RetryBudget ==
    /\ invocations <= MAX_RETRIES
    /\ Len(outcomes) = invocations
    /\ pc \in {"loop", "attempt"} => Len(sleeps) = invocations /\ invocations < MAX_RETRIES
    /\ pc = "sleep" => Len(sleeps) = invocations - 1 /\ invocations < MAX_RETRIES
    /\ pc \in {"returned", "raised"} /\ invocations >= 1 => Len(sleeps) = invocations - 1
    /\ TwoRateLimits /\ Len(outcomes) = 2 => pc \in {"sleep", "loop", "attempt"}
    /\ TwoRateLimits /\ Len(outcomes) = 3 /\ outcomes[3].type = "ok" =>
          /\ pc = "returned"
          /\ result # NoResult
          /\ invocations = 3
          /\ Len(sleeps) = 2

\* C1 witness: 429, 429, success: returned after 3 invocations and 2 sleeps.
C1_Witness ==
    /\ pc = "returned"
    /\ TwoRateLimits
    /\ invocations = 3
    /\ Len(sleeps) = 2
    /\ result # NoResult

\* C2: an attempt that fails with a permanent (non-transient) error is the last
\* one: the call has raised that same error, nothing was slept after it and the
\* capability was not invoked again.
C2_PermanentErrorNotRetried ==
    \A k \in FailedAttempts :
        ~is_transient_error(outcomes[k]) =>
            /\ k = Len(outcomes)
            /\ pc = "raised"
            /\ raised = outcomes[k]
            /\ invocations = k
            /\ Len(sleeps) = k - 1

\* C2 witness: "Video unavailable" on attempt 1 of 3: raised at once, no sleep.
C2_Witness ==
    /\ pc = "raised"
    /\ raised.type = "DownloadError" /\ raised.msg = VIDEO_UNAVAILABLE /\ raised.at = 1
    /\ invocations = 1
    /\ sleeps = <<>>

\* C3: when every one of the MAX_RETRIES attempts fails with a transient error
\* the call raises the error of the last attempt.
C3_LastErrorRaised ==
    (/\ Len(outcomes) = MAX_RETRIES
     /\ \A k \in 1..MAX_RETRIES : k \in FailedAttempts /\ is_transient_error(outcomes[k]))
    => /\ pc = "raised"
       /\ raised = outcomes[MAX_RETRIES]
       /\ raised.at = MAX_RETRIES

\* C3 witness: three transient failures, the first and the last with different
\* messages, and the call has raised the third.
C3_Witness ==
    /\ pc = "raised"
    /\ Len(outcomes) = MAX_RETRIES
    /\ \A k \in 1..MAX_RETRIES : k \in FailedAttempts /\ is_transient_error(outcomes[k])
    /\ outcomes[1].msg # outcomes[MAX_RETRIES].msg
    /\ raised.msg = outcomes[MAX_RETRIES].msg

\* The attempts that failed because the capability returned but left no caption
\* asset (NoCaptionsFound) or an empty one (EmptyCaptions).
NoCaptionAttempts ==
    {k \in FailedAttempts :
        /\ outcomes[k].type = "ValueError"
        /\ outcomes[k].msg \in {NoSubtitlesMessage(video_id, lang),
                                EmptyFileMessage(video_id, lang)}}

\* C4: for every video id and language, an attempt that ends in NoCaptionsFound
\* or EmptyCaptions is not retried: the call has raised that error, with no
\* backoff sleep after it and no further invocation of the capability.
C4_NoCaptionsNotRetried ==
    \A k \in NoCaptionAttempts :
        /\ k = Len(outcomes)
        /\ pc = "raised"
        /\ raised = outcomes[k]
        /\ Len(sleeps) = k - 1

\* The input is a URL (not a bare id) whose scheme is not http/https or whose
\* authority is not one of the allowed hosts.
DisallowedUrl(url) ==
    /\ ~IsRawVideoId(url)
    /\ ~(HasHttpScheme(url) /\ Netloc(url) \in VALID_HOSTS)

\* C5: a call whose URL has a scheme other than http/https or an authority that
\* is not exactly an allowed host fails with the invalid-reference error and
\* never invokes the capability, even if a trusted-host pattern occurs
\* elsewhere in the URL.
C5_DisallowedUrlRejected ==
    (pc # "idle" /\ DisallowedUrl(video_url)) =>
        /\ pc = "raised"
        /\ raised.type = "ValueError"
        /\ raised.msg = InvalidUrlMessage(video_url)
        /\ invocations = 0

\* C6: when the video reference cannot be resolved the call has raised the
\* invalid-reference error without acquiring a working area, without invoking
\* the capability, without sleeping and without entering the retry loop.
C6_UnresolvedFailsFast ==
    (pc # "idle" /\ extract_video_id(video_url) = None) =>
        /\ pc = "raised"
        /\ raised = [type |-> "ValueError", msg |-> InvalidUrlMessage(video_url), at |-> 0]
        /\ temp_dirs.acquired = 0
        /\ invocations = 0
        /\ sleeps = <<>>
        /\ outcomes = <<>>
        /\ attempt = 0

\* C6 witness: "not-a-url" was passed and the call has raised before any attempt.
C6_Witness ==
    /\ pc = "raised"
    /\ video_url = <<"n","o","t","-","a","-","u","r","l">>
    /\ raised.type = "ValueError" /\ raised.at = 0
    /\ temp_dirs.acquired = 0
    /\ invocations = 0

-----------------------------------------------------------------------------
(* Properties of the parsers (specification SpecParse)                     *)

\* The entries either parser has returned.
ParsedEntries ==
    {small_entries.entries[k] : k \in 1..Len(small_entries.entries)}
    \cup {stream_entries.entries[k] : k \in 1..Len(stream_entries.entries)}

\* C7: for every caption text the materialized-line parser and the streaming
\* parser return the same sequence of entries.
C7_ParsersAgree ==
    (small_entries.done /\ stream_entries.done) =>
        small_entries.entries = stream_entries.entries

IsTimestampLine(line) == MatchTimestampLine(Strip(line)) # NoMatch

IsBlankLine(line) == Strip(line) = <<>>

\* Line i of the input is a text line of a cue: a timestamp line precedes it
\* with nothing but text lines in between.
IsCueTextLine(lines, i) ==
    /\ ~IsBlankLine(lines[i]) /\ ~IsTimestampLine(lines[i])
    /\ \E j \in 1..(i - 1) :
          /\ IsTimestampLine(lines[j])
          /\ \A m \in (j + 1)..(i - 1) : ~IsBlankLine(lines[m]) /\ ~IsTimestampLine(lines[m])

\* The timestamp lines of the input that directly follow a text line of a cue.
TimestampsAfterText(lines) ==
    {i \in 2..Len(lines) : IsTimestampLine(lines[i]) /\ IsCueTextLine(lines, i - 1)}

\* C8: a timestamp line that directly follows a cue's text lines ends that cue:
\* it is never added to the text of an entry.
C8_TimestampEndsCue ==
    \A i \in TimestampsAfterText(Split(vtt_content, "\n")) :
        \A e \in ParsedEntries :
            ~Contains(e.text, EntryText(<<CleanTextLine(Strip(Split(vtt_content, "\n")[i]))>>))

\* The start and end the long form of each timestamp line of CaptionLines has.
ExpectedTimes(line) ==
    IF line = TS_LONG
    THEN <<<<"0","0",":","0","0",":","0","1",".","0","0","0">>, <<"0","0",":","0","0",":","0","4",".","0","0","0">>>>
    ELSE <<<<"0","0",":","0","0",":","0","5",".","0","0","0">>, <<"0","0",":","0","0",":","0","8",".","0","0","0">>>>

\* Text lines that are not empty once cleaned.
VisibleTextLines == {TEXT_PLAIN, TEXT_TAGGED}

\* The input is made of cues: after an optional WEBVTT banner and blank lines,
\* every line is a timestamp line, a visible text line of a cue or a blank
\* line, and every timestamp line is followed by a text line.
MadeOfCues(lines) ==
    /\ \A i \in 1..Len(lines) :
          \/ lines[i] = WEBVTT /\ i = 1
          \/ lines[i] = <<>>
          \/ lines[i] \in TimestampLines /\ i < Len(lines) /\ lines[i + 1] \in VisibleTextLines
          \/ lines[i] \in VisibleTextLines /\ i > 1
                /\ lines[i - 1] \in TimestampLines \cup VisibleTextLines
    /\ \E i \in 1..Len(lines) : lines[i] \in TimestampLines

\* The timestamp lines of the input, in source order.
CueLines(lines) == SelectSeq(lines, LAMBDA l : l \in TimestampLines)

\* entries has one entry per cue, in source order, with normalized times.
OneEntryPerCue(entries, cues) ==
    /\ Len(entries) = Len(cues)
    /\ \A k \in 1..Len(cues) :
          /\ entries[k].start = ExpectedTimes(cues[k])[1]
          /\ entries[k].end = ExpectedTimes(cues[k])[2]

\* C9: for every input made of cues with a valid long-form or short-form
\* timestamp pair followed by non-empty text, each parser returns exactly one
\* entry per cue, in source order, with start and end in long form.
C9_OneEntryPerCue ==
    MadeOfCues(Split(vtt_content, "\n")) =>
        /\ small_entries.done =>
              OneEntryPerCue(small_entries.entries, CueLines(Split(vtt_content, "\n")))
        /\ stream_entries.done =>
              OneEntryPerCue(stream_entries.entries, CueLines(Split(vtt_content, "\n")))

\* C10: every entry a parser returns has non-empty text.
C10_EntryTextNonEmpty == \A e \in ParsedEntries : e.text # <<>>

-----------------------------------------------------------------------------
(* Properties of one attempt's outcome (specification Spec)                *)

\* The capability returned a record and left a caption file with text `asset`.
HasAsset(answer) == answer.kind = "returns_info" /\ answer.asset # NoFile

\* The attempts whose caption file was empty or whitespace-only.
EmptyAssetAttempts ==
    {k \in 1..Len(answers) : HasAsset(answers[k]) /\ Strip(answers[k].asset) = <<>>}

\* The attempts that found no caption file.
NoAssetAttempts ==
    {k \in 1..Len(answers) : answers[k].kind = "returns_info" /\ answers[k].asset = NoFile}

\* The attempts, in json or text mode, whose non-empty caption file gave no entry.
ZeroEntryAttempts ==
    {k \in 1..Len(answers) :
        /\ HasAsset(answers[k])
        /\ Strip(answers[k].asset) # <<>>
        /\ output_format # "vtt"
        /\ ParseVttToJson(answers[k].asset) = <<>>}

\* C12: an attempt whose caption text is empty or whitespace-only fails with the
\* empty-input error, in every output format: the text is tested before it is
\* parsed, and the error is not the zero-entries error.
C12_EmptyInputFailsFirst ==
    \A k \in EmptyAssetAttempts :
        /\ outcomes[k].type = "ValueError"
        /\ outcomes[k].msg = EmptyFileMessage(video_id, lang)
        /\ outcomes[k].msg # MalformedMessage

\* C12 witness: a whitespace-only caption file in json mode, for which the
\* parser would return no entry: the call has raised the empty-input error.
C12_Witness ==
    /\ pc = "raised"
    /\ output_format = "json"
    /\ Len(answers) = 1
    /\ 1 \in EmptyAssetAttempts
    /\ answers[1].asset # <<>>
    /\ ParseVttToJson(answers[1].asset) = <<>>
    /\ raised.msg = EmptyFileMessage(video_id, lang)

\* The errors of the not-found conditions, for every identifier and language.
NotFoundMessages ==
    {NoSubtitlesMessage(v, l) : v \in VideoIds, l \in Languages}
    \cup {EmptyFileMessage(v, l) : v \in VideoIds, l \in Languages}

\* What get_subtitles answers for the not-found errors.
NotFoundResponses ==
    {HTTPException([type |-> "ValueError", msg |-> m]) : m \in NotFoundMessages}

IsNormalized(s) ==
    /\ Strip(s) = s
    /\ \A i \in 1..Len(s) : IsSpace(s[i]) => s[i] = " " /\ ~IsSpace(At(s, i + 1))

C15_NoPartialResult ==
    /\ pc = "returned" =>
          /\ raised = NoError
          /\ Len(result) = 3
          /\ result[1] = video_id
          /\ result[3] = VideoMetadata(video_id)
          /\ HasAsset(answers[Len(answers)])
          /\ Strip(answers[Len(answers)].asset) # <<>>
          /\ output_format # "vtt" =>
                /\ ParseVttToJson(answers[Len(answers)].asset) # <<>>
                /\ result[2].value = ParseVttToJson(answers[Len(answers)].asset)
    /\ pc # "returned" => result = NoResult

\* C15 witness: the capability returned the record but left no caption file:
\* the call has raised and has returned nothing.
C15_Witness ==
    /\ pc = "raised"
    /\ Len(answers) \in NoAssetAttempts
    /\ raised.type = "ValueError"
    /\ result = NoResult

\* C16: every attempt acquires a working area of its own and gives it up when
\* the attempt ends: a call holds one exactly while an attempt runs, never two,
\* none during a backoff sleep and none once it has returned or raised.
C16_WorkingAreaReleased ==
    /\ temp_dirs.existing \in {0, 1}
    /\ temp_dirs.existing = 1 <=> pc = "attempt"
    /\ temp_dirs.acquired = invocations + temp_dirs.existing
    /\ pc \in {"sleep", "returned", "raised"} => temp_dirs.existing = 0

\* C16 witness: three attempts, three working areas, all gone when the call
\* has raised.
C16_Witness ==
    /\ pc = "raised"
    /\ invocations = MAX_RETRIES
    /\ temp_dirs = [acquired |-> MAX_RETRIES, existing |-> 0]

-----------------------------------------------------------------------------
(* Properties of the entry text (specification SpecParse)                  *)

\* The text lines of the cue whose timestamp line is line j: the lines after
\* it, up to the next blank line or timestamp line.
RECURSIVE CueTextLines(_, _)
CueTextLines(lines, j) ==
    IF j + 1 > Len(lines) \/ IsBlankLine(lines[j + 1]) \/ IsTimestampLine(lines[j + 1])
    THEN <<>>
    ELSE <<lines[j + 1]>> \o CueTextLines(lines, j + 1)

\* The text lines with every <...> span removed.
WithoutSpans(text_lines) ==
    [k \in 1..Len(text_lines) |-> TAG_REMOVAL_PATTERN(Strip(text_lines[k]))]

\* The lines joined by single spaces, whitespace collapsed and trimmed.
JoinedText(text_lines) == Strip(CollapseWhitespace(Join(text_lines, <<" ">>)))

\* The texts the cues of the input have.
CueTexts(lines) ==
    {JoinedText(WithoutSpans(CueTextLines(lines, j))) :
        j \in {i \in 1..Len(lines) : IsTimestampLine(lines[i])}}

SECOND_SUBTITLE == <<"S","e","c","o","n","d"," ","s","u","b","t","i","t","l","e">>

\* C11: the text of every parsed entry is the text of a cue of the input: its
\* text lines with every <...> span removed, joined by single spaces, with
\* whitespace collapsed and trimmed; the cue whose only text line is
\* "<00:00:02.500>Second <00:00:03.000>subtitle" gives "Second subtitle".
C11_EntryTextIsCueText ==
    /\ \A e \in ParsedEntries : e.text \in CueTexts(SplitLines(vtt_content))
    /\ vtt_content = TS_LONG \o <<"\n">> \o TEXT_TAGGED =>
          \A e \in ParsedEntries : e.text = SECOND_SUBTITLE

-----------------------------------------------------------------------------
(* Properties of the language cache (specification SpecLang)               *)

\* Call k is a listing call for video id vid.
IsListingOf(k, vid) == lang_calls[k].op = "list" /\ lang_calls[k].video_id = vid

\* Call k is a clearing call that covers video id vid.
IsClearingOf(k, vid) ==
    lang_calls[k].op = "clear" /\ lang_calls[k].video_id \in {vid, None}

\* Calls i < j are listing calls for vid, with no other listing of vid and no
\* clearing that covers vid between them.
ConsecutiveListings(i, j, vid) ==
    /\ i < j
    /\ IsListingOf(i, vid) /\ IsListingOf(j, vid)
    /\ \A m \in (i + 1)..(j - 1) : ~IsListingOf(m, vid) /\ ~IsClearingOf(m, vid)

\* Call k fetched the listing upstream and returned it.
FetchedListing(k) ==
    /\ lang_calls[k].op = "list"
    /\ lang_calls[k].invocations = 1
    /\ lang_calls[k].raised = NoListingError

\* Call k returned the listing without invoking the capability.
ServedFromCache(k) ==
    /\ lang_calls[k].op = "list"
    /\ lang_calls[k].invocations = 0
    /\ lang_calls[k].raised = NoListingError

\* Call j was made less than the TTL after call i stored its listing.
WithinTtl(i, j) == lang_calls[j].at - lang_calls[i].end < language_cache_ttl

\* C17: of two listing calls for the same resolved video id on one extractor,
\* the first of which fetched the listing, the second causes no further fetch
\* and returns the cached list when it is made within the TTL after the first,
\* so that the two calls cause exactly one fetch; made after the TTL has
\* expired it fetches again, two fetches in all, and the entry in the cache is
\* then the fresh one.
C17_OneFetchWithinTtl ==
    \A vid \in VideoIds : \A i, j \in 1..Len(lang_calls) :
        (ConsecutiveListings(i, j, vid) /\ FetchedListing(i)) =>
            IF WithinTtl(i, j)
            THEN /\ ServedFromCache(j)
                 /\ lang_calls[i].invocations + lang_calls[j].invocations = 1
                 /\ lang_calls[j].languages = lang_calls[i].languages
                 /\ j = Len(lang_calls) =>
                       language_cache[vid] =
                           CacheEntry(lang_calls[i].languages, lang_calls[i].end)
            ELSE /\ lang_calls[j].invocations = 1
                 /\ lang_calls[i].invocations + lang_calls[j].invocations = 2
                 /\ (j = Len(lang_calls) /\ FetchedListing(j)) =>
                       language_cache[vid] =
                           CacheEntry(lang_calls[j].languages, lang_calls[j].end)

\* C17 witness: three listing calls for one video id: the first fetches, the
\* second, 299 seconds later, is served from the cache, the third, after the
\* TTL, fetches a different listing, which is the entry now cached.
C17_Witness ==
    /\ Len(lang_calls) = 3
    /\ \E vid \in VideoIds :
          /\ ConsecutiveListings(1, 2, vid) /\ ConsecutiveListings(2, 3, vid)
          /\ FetchedListing(1) /\ ServedFromCache(2) /\ FetchedListing(3)
          /\ WithinTtl(1, 2) /\ ~WithinTtl(1, 3)
          /\ lang_calls[3].languages # lang_calls[1].languages
          /\ language_cache[vid] = CacheEntry(lang_calls[3].languages, lang_calls[3].end)

-----------------------------------------------------------------------------
(* Properties of the merged listing (specification SpecMerge)              *)

\* The language codes that are keys of a subtitles dict.
CodesOf(subs) == {subs[k].lang_code : k \in 1..Len(subs)}

\* The positions of the listing whose entry has the code lang_code.
EntriesOf(listing, lang_code) == {k \in 1..Len(listing) : listing[k].code = lang_code}

\* C18: in the merged listing every language code of the record appears
\* exactly once; the entry of a code that has a manual track is the manual one
\* (auto_generated false), so the automatic track of that code is absent;
\* automatic entries are entries of codes without a manual track, and they
\* come after all manual entries.
C18_ManualTakesPrecedence ==
    languages.done =>
        /\ \A a, b \in 1..Len(languages.entries) :
              a # b => languages.entries[a].code # languages.entries[b].code
        /\ \A c \in CodesOf(info.subtitles) \cup CodesOf(info.automatic_captions) :
              Cardinality(EntriesOf(languages.entries, c)) = 1
        /\ \A k \in 1..Len(languages.entries) :
              /\ languages.entries[k].code \in CodesOf(info.subtitles) =>
                    ~languages.entries[k].auto_generated
              /\ languages.entries[k].auto_generated =>
                    /\ languages.entries[k].code \in CodesOf(info.automatic_captions)
                    /\ languages.entries[k].code \notin CodesOf(info.subtitles)
                    /\ \A m \in k..Len(languages.entries) :
                          languages.entries[m].auto_generated

\* C18 witness: a record with a code that has both a manual and an automatic
\* track and an automatic track of another code listed before it: the listing
\* has the manual entry first and one automatic entry after it.
C18_Witness ==
    /\ languages.done
    /\ Len(info.subtitles) = 1
    /\ Len(info.automatic_captions) = 2
    /\ info.automatic_captions[2].lang_code = info.subtitles[1].lang_code
    /\ Len(languages.entries) = 2
    /\ ~languages.entries[1].auto_generated
    /\ languages.entries[2].auto_generated
    /\ languages.entries[2].code = info.automatic_captions[1].lang_code

-----------------------------------------------------------------------------
(* Properties of clearing and of failed listings (specification SpecLang)  *)

\* This step is a clear_language_cache call.
ClearingStep ==
    /\ Len(lang_calls') = Len(lang_calls) + 1
    /\ lang_calls'[Len(lang_calls')].op = "clear"

\* The argument of the clear_language_cache call of this step.
ClearedId == lang_calls'[Len(lang_calls')].video_id

\* C19: clear_language_cache(video_id) removes the entry of that video id and
\* leaves the entry of every other id as it was; with no id it removes every
\* entry; for an id without an entry it changes nothing; it never raises.  The
\* listing call for a video id that directly follows a clearing of it fetches
\* upstream.
C19_ClearRemovesOnlyThatEntry ==
    /\ [][ClearingStep =>
            /\ lang_calls'[Len(lang_calls')].raised = NoListingError
            /\ ClearedId = None =>
                  \A v \in DOMAIN language_cache : ~language_cache'[v].present
            /\ ClearedId # None =>
                  /\ ~language_cache'[ClearedId].present
                  /\ \A v \in DOMAIN language_cache \ {ClearedId} :
                        language_cache'[v] = language_cache[v]
                  /\ ~language_cache[ClearedId].present => language_cache' = language_cache
          ]_vars
    /\ [](\A vid \in VideoIds : \A k \in 1..(Len(lang_calls) - 1) :
            (IsClearingOf(k, vid) /\ IsListingOf(k + 1, vid)) =>
                lang_calls[k + 1].invocations = 1)

\* C19 witness: the listings of two video ids were fetched and the entry of the
\* first was cleared: the first has no entry, the second still has its own.
C19_Witness ==
    /\ Len(lang_calls) = 3
    /\ FetchedListing(1) /\ FetchedListing(2)
    /\ lang_calls[1].video_id # lang_calls[2].video_id
    /\ lang_calls[3].op = "clear"
    /\ lang_calls[3].video_id = lang_calls[1].video_id
    /\ ~language_cache[lang_calls[1].video_id].present
    /\ language_cache[lang_calls[2].video_id] =
           CacheEntry(lang_calls[2].languages, lang_calls[2].end)

\* The listing calls whose upstream listing failed.
FailedListings ==
    {k \in 1..Len(lang_calls) :
        lang_calls[k].op = "list" /\ lang_calls[k].answer.kind = "raises"}

\* C20: a listing call whose upstream listing fails has invoked the capability
\* exactly once and has not slept, whether the error is transient or not; it
\* raises the error of the capability as it is; and it leaves no entry for its
\* video id in the cache.
C20_ListingFailureNotRetried ==
    \A k \in FailedListings :
        /\ lang_calls[k].invocations = 1
        /\ lang_calls[k].sleeps = 0
        /\ lang_calls[k].raised = Error("DownloadError", lang_calls[k].answer.msg)
        /\ lang_calls[k].languages = <<>>
        /\ k = Len(lang_calls) => ~language_cache[lang_calls[k].video_id].present

\* C20 witness: the listing of a video id was cached and has expired; the next
\* listing call for it fails upstream with the transient 429 error, which is
\* raised after one invocation, and the video id has no entry.
C20_Witness ==
    /\ Len(lang_calls) = 2
    /\ FetchedListing(1)
    /\ 2 \in FailedListings
    /\ lang_calls[2].video_id = lang_calls[1].video_id
    /\ ~WithinTtl(1, 2)
    /\ is_transient_error(lang_calls[2].raised)
    /\ lang_calls[2].raised.msg = HTTP_429
    /\ lang_calls[2].invocations = 1
    /\ ~language_cache[lang_calls[2].video_id].present

-----------------------------------------------------------------------------
(* Properties of the failure classifier (specification SpecClassify)       *)

\* The statuses and phrases the classifier is said to look for.
ClaimedMarkers ==
    { <<"4","2","9">>, <<"5","0","2">>, <<"5","0","3">>, <<"5","0","4">>,
      <<"t","i","m","e","o","u","t">>, <<"c","o","n","n","e","c","t","i","o","n"," ","r","e","f","u","s","e","d">>, <<"c","o","n","n","e","c","t","i","o","n"," ","r","e","s","e","t">>, <<"t","o","o"," ","m","a","n","y"," ","r","e","q","u","e","s","t","s">>,
      <<"r","a","t","e"," ","l","i","m","i","t">>, <<"s","e","r","v","i","c","e"," ","u","n","a","v","a","i","l","a","b","l","e">>, <<"b","a","d"," ","g","a","t","e","w","a","y">>, <<"g","a","t","e","w","a","y"," ","t","i","m","e","o","u","t">> }

\* The phrases the classifier looks for besides.
FurtherMarkers == { <<"c","o","n","n","e","c","t","i","o","n"," ","e","r","r","o","r">>, <<"n","e","t","w","o","r","k"," ","e","r","r","o","r">>, <<"t","e","m","p","o","r","a","r","y">> }

\* The text, compared case-insensitively, contains one of the markers.
HasMarker(text, markers) == \E m \in markers : Contains(Lower(text), m)

\* C25 (as claimed): an error is classified transient exactly when its text,
\* compared case-insensitively, contains one of the statuses 429, 502, 503, 504
\* or one of the eight phrases listed; every other error is permanent.
C25_TransientExactlyListed ==
    returned.done => (returned.value <=> HasMarker(argument, ClaimedMarkers))

\* C25 (amended): an error is classified transient exactly when its text,
\* compared case-insensitively, contains one of the statuses 429, 502, 503, 504
\* or one of the eleven phrases: the eight listed and "connection error",
\* "network error" and "temporary"; every other error is permanent.
C25_TransientExactlyAllPhrases ==
    returned.done =>
        (returned.value <=> HasMarker(argument, ClaimedMarkers \cup FurtherMarkers))

\* C25 witness: a text with a phrase in upper case after a message prefix has
\* been classified transient, and so has a text with none of the statuses and
\* none of the eight phrases.
C25_Witness ==
    /\ returned.done
    /\ returned.value
    /\ \/ argument = <<"E","R","R","O","R",":"," ","[","y","o","u","t","u","b","e","]"," ","d","Q","w","4","w","9","W","g","X","c","Q",":"," ">> \o Upper(<<"c","o","n","n","e","c","t","i","o","n"," ","r","e","s","e","t">>)
       \/ argument = <<"T","e","m","p","o","r","a","r","y">> /\ ~HasMarker(argument, ClaimedMarkers)

-----------------------------------------------------------------------------
(* Properties of the backoff (specification Spec)                          *)

\* min(1 * 2^a, 4) seconds, in milliseconds.
ClaimedBaseDelay(a) == (IF 2^a < 4 THEN 2^a ELSE 4) * 1000

\* The sum of a sequence of delays of at most two sleeps.
TotalSlept(s) ==
    IF Len(s) = 0 THEN 0 ELSE IF Len(s) = 1 THEN s[1] ELSE s[1] + s[2]

\* C26: the sleep after failed attempt a (0-based) lasts min(1 * 2^a, 4) seconds
\* plus a jitter in [0, 0.5] seconds; no base delay exceeds 4 seconds, the base
\* delays of attempts 0, 1 and 2 are 1, 2 and 4 seconds; one call sleeps at most
\* 8.5 seconds in total.
C26_BackoffBounded ==
    /\ Len(sleeps) <= 2
    /\ \A k \in 1..Len(sleeps) :
          /\ sleeps[k] >= ClaimedBaseDelay(k - 1)
          /\ sleeps[k] <= ClaimedBaseDelay(k - 1) + 500
    /\ \A a \in 0..MAX_RETRIES :
          /\ calculate_retry_delay(a, 0) = ClaimedBaseDelay(a)
          /\ calculate_retry_delay(a, 0) <= 4000
    /\ <<calculate_retry_delay(0, 0), calculate_retry_delay(1, 0),
         calculate_retry_delay(2, 0)>> = <<1000, 2000, 4000>>
    /\ TotalSlept(sleeps) <= 8500

\* C26 witness: a call slept after attempts 0 and 1 with the largest jitter.
C26_Witness ==
    /\ pc \in {"returned", "raised"}
    /\ invocations = MAX_RETRIES
    /\ sleeps = <<1500, 2500>>

-----------------------------------------------------------------------------
(* Properties of the URL validator (specification SpecUrl)                 *)

\* The scheme, the authority and what follows it, of an input "s://a...".
UrlParts(url) ==
    LET sep  == {i \in 1..Len(url) : HasAt(url, i, <<":","/","/">>)}
        rest == From(url, SetMin(sep) + 3)
        stop == {i \in 1..Len(rest) : rest[i] \in {"/", "?", "#"}}
        cut  == IF stop = {} THEN Len(rest) + 1 ELSE SetMin(stop)
    IN  IF sep = {}
        THEN [scheme |-> <<>>, authority |-> <<>>, path |-> url]
        ELSE [scheme    |-> SubSeq(url, 1, SetMin(sep) - 1),
              authority |-> SubSeq(rest, 1, cut - 1),
              path      |-> From(rest, cut)]

\* The recognized shapes: the path starts with /watch?v=, /embed/, /shorts/ or,
\* for a short link, /, and an identifier follows.
RecognizedShape(path) ==
    \E p \in { <<"/","w","a","t","c","h","?","v","=">>, <<"/","e","m","b","e","d","/">>, <<"/","s","h","o","r","t","s","/">>, <<"/">> } :
        StartsWith(path, p) /\ IsIdAt(path, Len(p) + 1)

\* C27: is_valid_youtube_url returns true only if the whole input matches the
\* bare identifier pattern, or the scheme is http or https, the authority is
\* exactly one of youtube.com, www.youtube.com, m.youtube.com, youtu.be and the
\* path has a recognized shape; whenever it returns true, extract_video_id
\* returns an identifier of 11 characters.
C27_ValidOnlyRecognizedUrls ==
    returned.done /\ returned.value.valid =>
        /\ \/ Len(argument) = 11 /\ IsIdAt(argument, 1)
           \/ argument = SubSeq(argument, 1, 11) \o <<"\n">> /\ IsIdAt(argument, 1)
           \/ LET u == UrlParts(argument)
              IN  /\ u.scheme \in { <<"h","t","t","p">>, <<"h","t","t","p","s">> }
                  /\ u.authority \in { <<"y","o","u","t","u","b","e",".","c","o","m">>, <<"w","w","w",".","y","o","u","t","u","b","e",".","c","o","m">>,
                                       <<"m",".","y","o","u","t","u","b","e",".","c","o","m">>, <<"y","o","u","t","u",".","b","e">> }
                  /\ RecognizedShape(u.path)
        /\ returned.value.id # None
        /\ Len(returned.value.id) = 11

-----------------------------------------------------------------------------
(* Properties of the database cleanup (specification SpecDb)               *)

\* C30: cleanup_expired deletes exactly the rows whose expires_at is set and
\* earlier than now and returns how many it deleted, 0 when there is none; rows
\* whose expires_at is later, or now, or absent stay as they are.
C30_CleanupDeletesExactlyExpired ==
    [][Len(deleted_counts') > Len(deleted_counts) =>
        LET expired == {r \in rows : r.expires_at.set /\ r.expires_at.at < utc}
            count   == deleted_counts'[Len(deleted_counts')]
        IN  /\ rows' = rows \ expired
            /\ count = Cardinality(expired)
            /\ expired = {} => count = 0
            /\ \A r \in rows :
                  ~r.expires_at.set \/ r.expires_at.at >= utc => r \in rows']_vars

\* C30 witness: cleanup_expired has returned 0 and then 2, and the table still
\* holds a row that expires at this hour.
C30_Witness ==
    /\ deleted_counts = <<0, 2>>
    /\ \E r \in rows : r.expires_at = ExpiresAt(utc)

-----------------------------------------------------------------------------
(* Properties of the in-memory cache (specification SpecStore)             *)

\* The get that a step returns from, if it is one.
GetReturned == cache_history'.got.n # cache_history.got.n

\* C28: different (video_url, lang, format) triples address different entries:
\* within the TTL and below maxsize, get returns the value last set for exactly
\* its triple (None if that triple was never set), no two distinct triples
\* share an entry, and set_languages and get_languages neither read nor
\* overwrite the entry of a triple.
C28_TriplesAddressOwnEntries ==
    [][GetReturned =>
        LET g == cache_history'.got
            w == cache_history.last_set[g.address]
        IN  /\ g.value # None => w.set /\ g.value = w.value
            /\ w.set /\ monotonic < w.at + cache_ttl /\ cache_history.evicted = {}
                  => g.value = w.value]_vars

\* The address whose set is the latest one of a key's.
LatestSetOf(key) ==
    LET setters == {a \in Addresses : KeyOf(a) = key /\ cache_history.last_set[a].set}
    IN  IF setters = {}
        THEN NotSet
        ELSE cache_history.last_set[
                CHOOSE a \in setters :
                    \A b \in setters :
                        cache_history.last_set[b].n <= cache_history.last_set[a].n]

\* C29: the cache never holds more than maxsize entries; get returns the value
\* most recently set for its key while that value is younger than the TTL and
\* its key has not been evicted, and None once the TTL has elapsed since that
\* set, after clear, and for a key never set.
C29_BoundedFreshOrNone ==
    /\ [](Len(subtitle_cache.items) <= cache_maxsize)
    /\ [][GetReturned =>
            LET g   == cache_history'.got
                key == KeyOf(g.address)
                w   == LatestSetOf(key)
            IN  /\ ~w.set => g.value = None
                /\ w.set /\ monotonic >= w.at + cache_ttl => g.value = None
                /\ w.set /\ monotonic < w.at + cache_ttl /\ key \notin cache_history.evicted
                      => g.value = w.value
                /\ g.value # None => w.set /\ g.value = w.value]_vars

\* C29 witness: the cache is full, and a get has returned None for a key whose
\* TTL has elapsed since it was set, after a hit.
C29_Witness ==
    LET g == cache_history.got
        w == LatestSetOf(KeyOf(g.address))
    IN  /\ g.n = cache_history.ops
        /\ g.value = None
        /\ w.set
        /\ monotonic >= w.at + cache_ttl
        /\ subtitle_cache.hits = 1
        /\ Len(subtitle_cache.items) = cache_maxsize

-----------------------------------------------------------------------------
(* Properties of concurrent listing calls (specification SpecRace)         *)

\* C21: concurrent calls of list_available_languages and clear_language_cache
\* on one extractor for one video id do not disturb each other: every call
\* returns or raises an error of the upstream fetch, never an error of the
\* cache itself, and when all calls are over the entry of the id, if there is
\* one, is the one a call stored.
C21_CallsDoNotDisturbEachOther ==
    /\ \A t \in Threads :
          threads[t].outcome.kind = "raised" =>
              threads[t].outcome.error.type = "DownloadError"
    /\ (\A t \in Threads : threads[t].pc = "done") /\ language_cache[RaceVideoId].present =>
          \/ \E t \in Threads : threads[t].stored = language_cache[RaceVideoId]
          \/ language_cache[RaceVideoId].timestamp = 0

-----------------------------------------------------------------------------
(* Properties of concurrent extractions (specifications SpecCalls and      *)
(* SpecCallsFair)                                                          *)

\* What a call that received the answers `outs` one after the other comes to,
\* when it runs alone: its last attempt, as _extract_subtitles_once decides it.
AloneLast(self) ==
    extract_subtitles_once(self.video_id, self.lang, self.output_format,
                           self.answers[Len(self.answers)])

\* The call slept after each of its attempts but the last, and only then.
OwnAttempts(self) ==
    /\ self.invocations = Len(self.answers)
    /\ self.invocations <= MAX_RETRIES
    /\ self.attempt = Len(self.sleeps)
    /\ \A k \in 1..Len(self.sleeps) :
          /\ self.answers[k].kind = "raises"
          /\ self.sleeps[k] = calculate_retry_delay(k - 1, RETRY_JITTER_MS)
    /\ self.pc \in {"loop", "attempt"} => self.invocations = Len(self.sleeps)
    /\ self.pc \in {"downloaded", "sleep"} => self.invocations = Len(self.sleeps) + 1

\* C22: concurrent extract_subtitles calls each have their own retry state and
\* their own working area: the attempts, the sleeps and the result or error of
\* a call are those of its own attempts, whatever the other call does; a call
\* only reads a caption file that its own attempt downloaded, and no two calls
\* are in the same working area.
C22_CallsAreIndependent ==
    /\ \A i \in Requests :
          LET self == requests[i]
          IN  /\ OwnAttempts(self)
              /\ \A k \in 1..Len(self.reads) : self.reads[k] \in {0, i}
              /\ self.pc = "returned" =>
                    AloneLast(self).ok /\ self.result = AloneLast(self).value
              /\ self.pc = "raised" /\ self.invocations > 0 =>
                    ~AloneLast(self).ok /\ self.raised = AloneLast(self).error
              /\ self.pc = "sleep" => ~AloneLast(self).ok
    /\ \A i, j \in Requests :
          i # j /\ requests[i].dir # 0 => requests[i].dir # requests[j].dir
    /\ \A f \in areas.files : requests[f.by].dir = f.dir

\* C22 witness: the two calls are in their working areas at once, each with
\* its downloaded file, the first in its second attempt and the second in its
\* first.
C22_Witness ==
    /\ requests[1].pc = "downloaded"
    /\ requests[2].pc = "downloaded"
    /\ requests[1].invocations = 2
    /\ requests[2].invocations = 1
    /\ \A i \in Requests : \E f \in areas.files : f.by = i

\* C23: a call that sleeps between attempts or waits for its download blocks
\* only itself: extract_subtitles runs off the event loop, so a request that
\* arrives meanwhile is received, processed and answered, even if the first
\* call never gets on.
C23_OtherRequestCompletes ==
    (requests[2].stage = "pending") ~> (requests[2].stage = "responded")

\* C23 witness: request 2 has been answered with its captions while the call
\* of request 1 sleeps between two attempts.
C23_Witness ==
    /\ requests[1].pc = "sleep"
    /\ requests[2].stage = "responded"
    /\ requests[2].status_code = 200

\* C24: when the calling context is cancelled during the backoff sleep, the
\* sleep is interrupted and the extraction unwinds: no further attempt is
\* started and no working area is left behind.
C24_CancelStopsExtraction ==
    \A i \in Requests :
        requests[i].cancel.cancelled /\ requests[i].cancel.asleep =>
            /\ requests[i].invocations = requests[i].cancel.invocations
            /\ requests[i].pc \notin {"loop", "attempt", "downloaded"}
            /\ requests[i].dir = 0

-----------------------------------------------------------------------------
(* Termination of the retry loop (specification Spec)                      *)

\* What the last invocation of the capability came to.
LastAttempt ==
    extract_subtitles_once(video_id, lang, output_format, answers[Len(answers)])

\* C39: a call of extract_subtitles with a resolvable reference is over after
\* at most 3 attempts, in one of two ways: it returns the result of a
\* successful attempt, its last, or it raises the error recorded from its last
\* attempt; the RuntimeError at the end of the function is never raised.
C39_ReturnsOrRaisesLastError ==
    /\ invocations <= 3
    /\ Len(answers) = invocations
    /\ pc = "returned" =>
          /\ raised = NoError
          /\ LastAttempt.ok
          /\ result = LastAttempt.value
    /\ pc = "raised" /\ ~ResolutionFailed(video_id) =>
          /\ result = NoResult
          /\ invocations >= 1
          /\ ~LastAttempt.ok
          /\ raised.type = LastAttempt.error.type
          /\ raised.msg = LastAttempt.error.msg
          /\ raised.at = invocations
          /\ raised.type # "RuntimeError"

\* C39 witness: a call has raised the permanent error of its second attempt,
\* which is not the transient one of its first.
C39_Witness ==
    /\ pc = "raised"
    /\ invocations = 2
    /\ is_transient_error(outcomes[1])
    /\ ~is_transient_error(outcomes[2])
    /\ raised = outcomes[2]

-----------------------------------------------------------------------------
(* The vtt format: what sanitizing leaves of the caption file               *)

\* The cue timing lines ("start --> end") of a caption text.
TimingLines(text) ==
    {SplitLines(text)[i] : i \in {k \in 1..Len(SplitLines(text)) : IsTimestampLine(SplitLines(text)[k])}}

\* The lines of a text, as a set.
LinesOf(text) == {SplitLines(text)[i] : i \in 1..Len(SplitLines(text))}

\* C40: in vtt mode every cue timing line of the caption file is a line of the
\* returned payload, unchanged: sanitizing removes tag markup of the cue texts
\* and nothing else.
C40_TimingLinesKept ==
    pc = "returned" /\ output_format = "vtt" =>
        TimingLines(answers[Len(answers)].asset) \subseteq LinesOf(result[2].value)

-----------------------------------------------------------------------------
(* The lifecycle of the database (specification SpecLife)                  *)

\* C31: when startup() is over the background cleanup task is set and running;
\* when shutdown() is over the task is None and the engine is None, the task
\* having been stopped before the engine was closed.
C31_StartupLeavesCleanupTask ==
    /\ lifecycle \in {"started", "startup_raised"} => tables /\ cleanup_task = "running"
    /\ lifecycle = "stopping" => cleanup_task = "None" /\ engine = "open"
    /\ lifecycle = "closed" => cleanup_task = "None" /\ engine = "None"

-----------------------------------------------------------------------------
(* The expiry of a written row (specification SpecDb)                      *)

\* C32: a row that set_cached_subtitle writes without a ttl_hours (None),
\* inserted or updated, expires DEFAULT_CACHE_TTL_HOURS (24) hours after the
\* write.
C32_NoneMeansDefaultTtl ==
    [][\A r \in rows' \ rows :
          r.ttl_hours = NoTtl => r.expires_at = ExpiresAt(utc + DEFAULT_CACHE_TTL_HOURS)]_vars

-----------------------------------------------------------------------------
(* Concurrent writes of one triple (specification SpecUpsert)              *)

\* C36: when two concurrent set_cached_subtitle calls for the same triple are
\* both over, both have returned without an error and the table holds exactly
\* one row of the triple, with the payload of one of the two.
C36_ConcurrentSetsBothSucceed ==
    /\ writers[1].key = writers[2].key
    /\ \A w \in Writers : writers[w].pc \notin {"none", "select", "commit"}
    => /\ \A w \in Writers : writers[w].pc = "returned"
       /\ Cardinality({r \in table : r.key = writers[1].key}) = 1
       /\ \A r \in table :
             r.key = writers[1].key => r.subtitle_data \in {WriterPayloads[w] : w \in Writers}

-----------------------------------------------------------------------------
(* The rate limit (specification SpecLimit)                                *)

\* The calls of an ip that were allowed at a time from s up to, not including,
\* s + window_seconds.
AllowedIn(ip, s) ==
    {k \in 1..Len(verdicts) :
        /\ verdicts[k].ip = ip /\ verdicts[k].allowed
        /\ verdicts[k].at >= s /\ verdicts[k].at < s + window_seconds}

\* How often the time t is among the timestamps.
TimesIn(stamps, t) == Cardinality({k \in 1..Len(stamps) : stamps[k] = t})

\* C38: for every client IP, at most max_requests calls of _check_rate_limit
\* are allowed within any window of window_seconds; every timestamp on record
\* is that of an allowed call, a rejected call records none; and the calls go
\* through the lock one at a time, so two calls never both take the last slot.
C38_AtMostLimitPerWindow ==
    /\ \A ip \in ClientIps, s \in 0..MaxWall : Cardinality(AllowedIn(ip, s)) <= max_requests
    /\ \A ip \in ClientIps, t \in 0..MaxWall :
          TimesIn(StampsOf(rate_limit_tracker, ip), t)
             <= Cardinality({k \in 1..Len(verdicts) :
                                verdicts[k] = [ip |-> ip, at |-> t, allowed |-> TRUE]})
    /\ Cardinality({c \in Callers : callers[c].pc = "inside"}) <= 1
    /\ \A c \in Callers : callers[c].pc = "inside" <=> rate_limit_lock = c

\* C38 witness: two calls of one ip were waiting for the lock at once with one
\* slot free; one was allowed and the other rejected in the same second, and
\* a later call was allowed when the window had passed.
C38_Witness ==
    \E i, j, k \in 1..Len(verdicts) :
        /\ i < j /\ j < k
        /\ verdicts[i].ip = verdicts[j].ip /\ verdicts[j].ip = verdicts[k].ip
        /\ verdicts[i].at = verdicts[j].at
        /\ verdicts[i].allowed /\ ~verdicts[j].allowed /\ verdicts[k].allowed
        /\ verdicts[k].at = verdicts[i].at + window_seconds

-----------------------------------------------------------------------------
(* The languages route (specification SpecLangApi)                         *)

\* C33: of two requests to the languages route for the same video id, the
\* first of which fetched the listing, the second, made within the TTL of
\* 300 s, is served from the language cache and invokes the capability no
\* second time.
C33_SecondRequestServedFromCache ==
    \A vid \in VideoIds : \A i, j \in 1..Len(lang_calls) :
        (ConsecutiveListings(i, j, vid) /\ FetchedListing(i) /\ WithinTtl(i, j)) =>
            /\ ServedFromCache(j)
            /\ lang_calls[i].invocations + lang_calls[j].invocations = 1

-----------------------------------------------------------------------------
(* The two cache tiers (specification SpecApi)                             *)

\* C34: when a request to the single endpoint is over, either it missed and
\* succeeded and both tiers hold the payload it extracted, or it was a hit or
\* a failure and it has written to neither tier.
C34_TiersAgreeAfterRequest ==
    \A k \in 1..Len(served) :
        served[k].endpoint = "single" =>
            IF served[k].outcome = "miss" /\ served[k].ok
            THEN /\ served[k].memory_after = DictOf(settings.format)
                 /\ served[k].persistent_after = SingleSubtitleData(settings.format)
            ELSE served[k].wrote = {}

\* C35: a request answered from an entry that the other endpoint had cached,
\* in either order and in every format, succeeds and carries the body of an
\* uncached answer of its endpoint.
C35_CachedByOtherEndpoint ==
    \A k \in 1..Len(served) :
        (served[k].outcome \in {"db_hit", "memory_hit"} /\ served[k].by # served[k].endpoint) =>
            /\ served[k].ok
            /\ served[k].body = UncachedBody(served[k].endpoint, settings.format)

\* C37: whatever cache_ttl is configured, a row that the handlers wrote to the
\* persistent tier is served by get_cached_subtitle no longer than cache_ttl
\* seconds after it was written.
C37_PersistentTierKeepsTtl ==
    RowServed(persistent, clock) => clock - persistent.written_at <= settings.cache_ttl

====
